---- MODULE Spec2Model ----
(***************************************************************************)
(* Happy-TTS: the speech synthesis pipeline (app.py: tts and its helpers), *)
(* the control HTTP service (app.py: the Flask routes) and the GitHub      *)
(* re-trigger service (.github/workflows/asyncio_action.py); the deploy    *)
(* tool (scripts/deploy_image.py), the package upgrader                    *)
(* (tools/upgrade_packages.py), the novel downloader (test.py), the API     *)
(* batch tester (scripts/batch_api_test.py), and the IP cache file, GET    *)
(* /ip and the command queue of app.py.                                    *)
(*                                                                         *)
(* Texts are sequences of characters; a character is a one-element string. *)
(* The four CJK characters of the store's markers are written "shi",       *)
(* "jian", "nei", "rong".  Memory sizes are counted in MiB.                *)
(***************************************************************************)
EXTENDS Integers, Sequences, FiniteSets, TLC

VARIABLES
    now,                      \* time.time() / datetime.now(), in seconds
    calls,                    \* tts_rate_limiter.calls
    attempt_result,           \* <<what the last RateLimiter.attempt() returned>>, if any
    allowed_log,              \* history: the time of every attempt that returned True
    processed_texts,          \* the in-memory duplicate-text set
    processed_file,           \* processed_content.txt, as characters
    current_processing_text,  \* the process-wide "currently processing" text
    tts_result,               \* history: the last tts() call and how it ended
    api_calls,                \* history: texts sent to client.audio.speech.create
    submitted,                \* history: the texts tts() has been called with
    correct_password,         \* os.getenv("SERVER_PASSWORD"), None when unset
    failed_attempts,          \* remote address -> <<time, count>> of its failed attempts
    response,                 \* the last HTTP request of the control service and its answer
    failure_log,              \* history: every wrong-password failure /email recorded
    account,                  \* GitHub: how many repositories the account has
    default_per_page,         \* GitHub: the page size of a listing that names none
    main_pc,                  \* where main() of the re-trigger service is
    repos,                    \* main(): repos
    repo_index,               \* main(): how many repos the first for loop has taken
    trigger_tasks,            \* main(): trigger_tasks, as <<repo, branch>> pairs
    requests,                 \* history: the outbound GitHub API calls
    tasks,                    \* <<kind, repo>> of each created task -> where it is
    workflow_log,             \* workflow_failures.log, one record per line
    answered,                 \* history: the status of each dispatch and each deletion
    deploy_env,               \* deploy tool: the environment variables main() reads
    deploy_pc,                \* deploy tool: where main() is
    host_index,               \* deploy tool: i of `for i in range(num_servers)`
    deploy_log,               \* deploy tool: the lines logged
    ssh_log,                  \* history: each ssh.connect, <<host, whether it succeeded>>
    remote_commands,          \* history: each command run on a host, <<host, command, container>>
    remote_containers,        \* deploy tool: <<host, name>> of the containers on the hosts
    upgrade_pc,               \* package upgrader: where main() is
    installed_packages,       \* package upgrader: <<name, version>> of each installed package
    fetches,                  \* package upgrader: package -> its fetch_latest_version, retries and result
    latest_versions,          \* package upgrader: package -> what get_latest_versions kept
    upgrade_index,            \* package upgrader: how many packages upgrade_packages has taken
    upgrade_output,           \* package upgrader: the lines printed
    upgrade_commands,         \* history: <<package, version>> of each pip install --upgrade
    chapter_ids,              \* novel downloader: itemIds of the book's metadata page
    item_ids,                 \* novel downloader: fanqie_download's item_ids
    novel_pc,                 \* novel downloader: where fanqie_download is
    chapter_tasks,            \* novel downloader: chapter id -> its fanqie_singe_chapter task
    temp_files,               \* novel downloader: the chapter ids that have a temporary file
    novel_file,               \* novel downloader: the chapters written to the book's file, in order
    removed_files,            \* history: the temporary files removed
    ip_file,                  \* ip_data.txt: whether it exists, and its lines
    ip_logged,                \* history: how many lines log_ip_data has appended
    trim,                     \* check_and_trim_file: where its thread is, and the lines it read
    trim_done,                \* history: the last check_and_trim_file, the lines it read and the file it left
    command_queue,            \* control service: command_queue
    added,                    \* history: every command /y added, in order, and whether it was removed since
    pad_input,                \* novel downloader: the string and the length given to width()
    pad_output,               \* novel downloader: whether the line was formatted, and the padded string
    error_file,               \* error.txt: the messages report_error has appended
    last_error_report_time,   \* can_report_error: last_error_report_time, -1 standing for datetime.min
    ip_request,               \* GET /ip: the request being served, between its cache read and its answer
    ip_lookups,               \* history: every get_ip_location, its ip, its location and whether real-time was asked
    stats,                    \* API batch tester: self.stats, the four call counters
    batch_results             \* history: the result of every test_single_endpoint call, or that it raised

ttsVars == <<calls, attempt_result, allowed_log, processed_texts, processed_file,
             current_processing_text, tts_result, api_calls, submitted>>

ctlVars == <<correct_password, failed_attempts, response, failure_log>>

ghVars == <<account, default_per_page, main_pc, repos, repo_index, trigger_tasks, requests,
            tasks, workflow_log, answered>>

deployVars == <<deploy_env, deploy_pc, host_index, deploy_log, ssh_log, remote_commands,
                remote_containers>>

upgradeVars == <<upgrade_pc, installed_packages, fetches, latest_versions, upgrade_index, upgrade_output, upgrade_commands>>

novelVars == <<chapter_ids, item_ids, novel_pc, chapter_tasks, temp_files, novel_file, removed_files>>

ipVars == <<ip_file, ip_logged, trim, trim_done>>

queueVars == <<command_queue, added>>

padVars == <<pad_input, pad_output>>

reportVars == <<error_file, last_error_report_time>>

ipreqVars == <<ip_request, ip_lookups>>

batchVars == <<stats, batch_results>>

\* the three services, and the command-line tools
serviceVars == <<ttsVars, ctlVars, ghVars>>

toolVars == <<deployVars, upgradeVars, novelVars, ipVars, queueVars, padVars, reportVars, ipreqVars, batchVars>>

\* what each component leaves alone, the clock apart
ttsRest == <<ctlVars, ghVars, toolVars>>

ctlRest == <<ttsVars, ghVars, toolVars>>

ghRest == <<ttsVars, ctlVars, toolVars>>

deployRest == <<serviceVars, upgradeVars, novelVars, ipVars, queueVars, padVars, reportVars, ipreqVars, batchVars>>

upgradeRest == <<serviceVars, deployVars, novelVars, ipVars, queueVars, padVars, reportVars, ipreqVars, batchVars>>

novelRest == <<serviceVars, deployVars, upgradeVars, ipVars, queueVars, padVars, reportVars, ipreqVars, batchVars>>

ipRest == <<serviceVars, deployVars, upgradeVars, novelVars, queueVars, padVars, reportVars, ipreqVars, batchVars>>

\* the command queue's routes go through the control service's hook
queueRest == <<ttsVars, ghVars, deployVars, upgradeVars, novelVars, ipVars, padVars, reportVars, ipreqVars, batchVars>>

\* what a restart of app.py cannot reach: the other programs
restartRest == <<ghVars, deployVars, upgradeVars, novelVars, padVars, reportVars, ipreqVars, batchVars>>

padRest == <<serviceVars, deployVars, upgradeVars, novelVars, ipVars, queueVars, reportVars, ipreqVars, batchVars>>

reportRest == <<serviceVars, deployVars, upgradeVars, novelVars, ipVars, queueVars, padVars, ipreqVars, batchVars>>

\* GET /ip goes through the control service's hook and writes ip_data.txt
ipreqRest == <<ttsVars, ghVars, deployVars, upgradeVars, novelVars, queueVars, padVars, reportVars, batchVars>>

batchRest == <<serviceVars, deployVars, upgradeVars, novelVars, ipVars, queueVars, padVars, reportVars, ipreqVars>>

vars == <<now, serviceVars, toolVars>>

-----------------------------------------------------------------------------
(* Sequences of characters *)

None == "None"

\* None where the code expects a JSON value
NoneValue == [is_none |-> TRUE]

\* a configured SERVER_PASSWORD
Secret == "secret"

Max(S) == CHOOSE x \in S : \A y \in S : y <= x

Min(S) == CHOOSE x \in S : \A y \in S : x <= y

Rep(c, n) == [i \in 1..n |-> c]

\* s[i..] starts with sep
StartsAt(s, sep, i) ==
    /\ i + Len(sep) - 1 <= Len(s)
    /\ \A k \in 1..Len(sep) : s[i + k - 1] = sep[k]

\* the positions >= from where sep occurs in s
Occurrences(s, sep, from) ==
    {i \in from..(Len(s) - Len(sep) + 1) : s[i] = sep[1] /\ StartsAt(s, sep, i)}

\* "sep in s"
Contains(s, sep) == Occurrences(s, sep, 1) # {}

\* s.split(sep): the pieces between the non-overlapping occurrences of sep, left to right
RECURSIVE SplitFrom(_, _, _)
SplitFrom(s, sep, from) ==
    LET occ == Occurrences(s, sep, from) IN
    IF occ = {} THEN <<SubSeq(s, from, Len(s))>>
    ELSE LET i == Min(occ) IN
         <<SubSeq(s, from, i - 1)>> \o SplitFrom(s, sep, i + Len(sep))

Split(s, sep) == SplitFrom(s, sep, 1)

\* sep.join(parts)
RECURSIVE Join(_, _)
Join(sep, parts) ==
    IF parts = <<>> THEN <<>>
    ELSE IF Len(parts) = 1 THEN parts[1]
    ELSE parts[1] \o sep \o Join(sep, Tail(parts))

\* s.strip(): leading and trailing whitespace removed
IsSpace(c) == c \in {" ", "\n"}

Strip(s) ==
    LET keep == {i \in 1..Len(s) : ~IsSpace(s[i])} IN
    IF keep = {} THEN <<>> ELSE SubSeq(s, Min(keep), Max(keep))

-----------------------------------------------------------------------------
(* difflib.SequenceMatcher(None, a, b).ratio() *)

\* autojunk: when b has 200 or more elements, those occurring more than
\* len(b) // 100 + 1 times are "popular" and start no match
Popular(b) ==
    IF Len(b) >= 200
    THEN {c \in {b[j] : j \in 1..Len(b)} :
            Cardinality({j \in 1..Len(b) : b[j] = c}) > (Len(b) \div 100) + 1}
    ELSE {}

\* the length of the common run of a and b that ends at a[i], b[j], inside
\* a[alo..], b[blo..], over the elements of b that are not popular (j2len)
RECURSIVE RunEndingAt(_, _, _, _, _, _, _)
RunEndingAt(a, b, pop, i, j, alo, blo) ==
    IF i < alo \/ j < blo THEN 0
    ELSE IF a[i] # b[j] \/ b[j] \in pop THEN 0
    ELSE 1 + RunEndingAt(a, b, pop, i - 1, j - 1, alo, blo)

\* how far a block can be extended to the left / right over equal elements
RECURSIVE ExtendLeft(_, _, _, _, _, _)
ExtendLeft(a, b, i, j, alo, blo) ==
    IF i > alo /\ j > blo /\ a[i - 1] = b[j - 1]
    THEN 1 + ExtendLeft(a, b, i - 1, j - 1, alo, blo)
    ELSE 0

RECURSIVE ExtendRight(_, _, _, _, _, _)
ExtendRight(a, b, i, j, ahi, bhi) ==
    IF i <= ahi /\ j <= bhi /\ a[i] = b[j]
    THEN 1 + ExtendRight(a, b, i + 1, j + 1, ahi, bhi)
    ELSE 0

\* find_longest_match over a[alo..ahi], b[blo..bhi] (both ends included):
\* <<i, j, k>>, the longest block a[i..i+k-1] = b[j..j+k-1], the one that
\* starts earliest in a and, of those, earliest in b; k = 0 when there is none.
\* A longest run ends where it cannot go on, so only such ends are measured.
find_longest_match(a, b, pop, alo, ahi, blo, bhi) ==
    LET Pair(i, j) == a[i] = b[j] /\ b[j] \notin pop
        bElems == {b[j] : j \in blo..bhi} \ pop
        aIdx   == {i \in alo..ahi : a[i] \in bElems}
        lasts  == {p \in aIdx \X (blo..bhi) :
                    /\ Pair(p[1], p[2])
                    /\ ~(p[1] < ahi /\ p[2] < bhi /\ Pair(p[1] + 1, p[2] + 1))}
        ends  == {<<p[1], p[2], RunEndingAt(a, b, pop, p[1], p[2], alo, blo)>> : p \in lasts}
    IN  IF ends = {} THEN <<alo, blo, 0>>
        ELSE LET k    == Max({e[3] : e \in ends})
                 iEnd == Min({e[1] : e \in {x \in ends : x[3] = k}})
                 jEnd == Min({e[2] : e \in {x \in ends : x[3] = k /\ x[1] = iEnd}})
                 i0   == iEnd - k + 1
                 j0   == jEnd - k + 1
                 l    == ExtendLeft(a, b, i0, j0, alo, blo)
                 r    == ExtendRight(a, b, i0 + k, j0 + k, ahi, bhi)
             IN  <<i0 - l, j0 - l, k + l + r>>

\* get_matching_blocks, summed: the number of matched elements
RECURSIVE MatchedSize(_, _, _, _, _, _, _)
MatchedSize(a, b, pop, alo, ahi, blo, bhi) ==
    IF alo > ahi \/ blo > bhi THEN 0
    ELSE LET m == find_longest_match(a, b, pop, alo, ahi, blo, bhi)
             i == m[1]
             j == m[2]
             k == m[3]
         IN  IF k = 0 THEN 0
             ELSE k + MatchedSize(a, b, pop, alo, i - 1, blo, j - 1)
                    + MatchedSize(a, b, pop, i + k, ahi, j + k, bhi)

Matches(a, b) == MatchedSize(a, b, Popular(b), 1, Len(a), 1, Len(b))

\* ratio() > 0.9, with ratio() = 2.0 * matches / (len(a) + len(b)), and 1.0
\* when both are empty
RatioAbove90(a, b) ==
    IF Len(a) + Len(b) = 0 THEN TRUE
    ELSE 20 * Matches(a, b) > 9 * (Len(a) + Len(b))

-----------------------------------------------------------------------------
(* The processed-text store and the duplicate-text set *)

DigitChars == <<"0", "1", "2", "3", "4", "5", "6", "7", "8", "9">>

TwoDigits(n) == <<DigitChars[((n \div 10) % 10) + 1], DigitChars[(n % 10) + 1]>>

\* datetime.now().strftime("%Y-%m-%d %H:%M:%S"), the clock starting at midnight
strftime(t) ==
    <<"2", "0", "2", "4", "-", "0", "1", "-", "0", "1", " ">>
    \o TwoDigits((t \div 3600) % 24) \o <<":">>
    \o TwoDigits((t \div 60) % 60) \o <<":">>
    \o TwoDigits(t % 60)

TimeMarker == <<"shi", "jian", ":", " ">>

ContentMarker == <<"nei", "rong", ":", " ">>

SeparatorLen == 40

Separator == Rep("-", SeparatorLen)

\* f"{hash(text)}-{md5}": the two hashes are taken to be free of collisions
builtin_hash(text) == <<"hash", text>>

md5_hexdigest(text) == <<"md5", text>>

generate_text_hash(text) == <<builtin_hash(text), md5_hexdigest(text)>>

\* the block save_processed_text appends
text_detail(text, t) ==
    TimeMarker \o strftime(t) \o <<"\n">> \o ContentMarker \o text \o <<"\n">>
    \o Separator \o <<"\n">>

save_processed_text(file, text, t) == file \o text_detail(text, t)

\* [line.split("内容: ")[1] for line in old_texts.split("时间: ") if "内容: " in line]
old_text_contents(old_texts) ==
    LET lines == SelectSeq(Split(old_texts, TimeMarker),
                           LAMBDA line : Contains(line, ContentMarker))
    IN  [i \in 1..Len(lines) |-> Split(lines[i], ContentMarker)[2]]

combined_old_text(old_texts) == Join(<<"\n">>, old_text_contents(old_texts))

check_similarity(file, new_text) == RatioAbove90(combined_old_text(file), new_text)

-----------------------------------------------------------------------------
(* RateLimiter(max_calls=5, period=30) *)

max_calls == 5

period == 30

RecentCalls_Inclusive(cs, t) == SelectSeq(cs, LAMBDA call : call >= t - period)

\* [call for call in self.calls if call > now - self.period]
RecentCalls(cs, t) == SelectSeq(cs, LAMBDA call : call > t - period)

\* len(self.calls) < self.max_calls
HasRoom(cs) == Len(cs) < max_calls

\* attempt(): <<the new self.calls, the value returned>>
attempt(cs, t) ==
    LET recent == RecentCalls(cs, t) IN
    IF HasRoom(recent) THEN <<Append(recent, t), TRUE>> ELSE <<recent, FALSE>>

-----------------------------------------------------------------------------
(* tts(): the speech synthesis pipeline *)

EmptyText == <<>>

TextA == <<"h", "e", "l", "l", "o", " ", "w", "o", "r", "l", "d", "!">>

\* TextA with its last character changed: SequenceMatcher ratio 22/24 with TextA
TextNear == <<"h", "e", "l", "l", "o", " ", "w", "o", "r", "l", "d", "?">>

\* as long as TextA, and materially different
TextOther == <<"g", "o", "o", "d", " ", "m", "o", "r", "n", "i", "n", "g">>

\* what the store holds as the content of TextA: the text, a newline and the delimiter line
TextBody == TextA \o <<"\n">> \o Separator \o <<"\n">>

TextShort == <<"h", "i">>

Texts == {EmptyText, TextA, TextNear, TextOther, TextBody, TextShort}

SilenceFile == "1-second-of-silence.mp3"

DuplicateError == "duplicate request, not processed"

RateLimitError == "request rate limit exceeded"

SimilarError == "more than 90% similar to earlier content"

ApiError == "speech generation failed, report to the site administrator"

AudioFile == "finish/<file_name>"

Raise(text, msg) == [text |-> text, kind |-> "raise", value |-> msg]

Return(text, v) == [text |-> text, kind |-> "return", value |-> v]

\* text_hash in processed_texts
IsDuplicate(set, text) == generate_text_hash(text) \in set

AddProcessed_Forgets(set, text) == set

\* processed_texts.add(text_hash)
AddProcessed(set, text) == set \cup {generate_text_hash(text)}

\* one call of tts(text, ...); api_ok: whether client.audio.speech.create succeeds
Tts(text) ==
    LET att  == attempt(calls, now)
        past == UNCHANGED <<processed_file, api_calls>>
    IN
    /\ UNCHANGED <<now, ttsRest>>
    /\ submitted' = submitted \cup {text}
    /\ IF IsDuplicate(processed_texts, text)
       THEN /\ current_processing_text' = text
            /\ tts_result' = Raise(text, DuplicateError)
            /\ UNCHANGED <<calls, attempt_result, allowed_log, processed_texts>>
            /\ past
       ELSE /\ processed_texts' = AddProcessed(processed_texts, text)
            /\ calls' = att[1]
            /\ attempt_result' = <<att[2]>>
            /\ allowed_log' = IF att[2] THEN Append(allowed_log, now) ELSE allowed_log
            /\ IF ~att[2]
               THEN /\ current_processing_text' = text
                    /\ tts_result' = Raise(text, RateLimitError)
                    /\ past
               ELSE IF Len(text) = 0
               THEN /\ current_processing_text' = text
                    /\ tts_result' = Return(text, SilenceFile)
                    /\ past
               ELSE IF check_similarity(processed_file, text)
               THEN /\ current_processing_text' = text
                    /\ tts_result' = Raise(text, SimilarError)
                    /\ past
               ELSE /\ processed_file' = save_processed_text(processed_file, text, now)
                    /\ api_calls' = Append(api_calls, text)
                    /\ current_processing_text' = EmptyText
                    /\ \E api_ok \in BOOLEAN :
                         tts_result' = IF api_ok THEN Return(text, AudioFile)
                                       ELSE Raise(text, ApiError)

\* tts_rate_limiter.attempt() on its own
Attempt ==
    LET att == attempt(calls, now) IN
    /\ calls' = att[1]
    /\ attempt_result' = <<att[2]>>
    /\ allowed_log' = IF att[2] THEN Append(allowed_log, now) ELSE allowed_log
    /\ UNCHANGED <<now, processed_texts, processed_file, current_processing_text,
                   tts_result, api_calls, submitted, ttsRest>>

\* the clock moves on by d seconds
Tick(d) ==
    /\ now' = now + d
    /\ UNCHANGED <<ttsVars, ttsRest>>

\* the speech pipeline as the module's globals leave it
TtsStart ==
    /\ calls = <<>>
    /\ attempt_result = <<>>
    /\ allowed_log = <<>>
    /\ processed_texts = {}
    /\ processed_file = <<>>
    /\ current_processing_text = EmptyText
    /\ tts_result = [text |-> EmptyText, kind |-> "none", value |-> None]
    /\ api_calls = <<>>
    /\ submitted = {}

\* the control service with SERVER_PASSWORD configured and no request made
CtlStart ==
    /\ correct_password = Secret
    /\ failed_attempts = <<>>
    /\ response = [route |-> "none"]
    /\ failure_log = {}

\* the re-trigger service before main() is run
GhStart ==
    /\ account = 0
    /\ default_per_page = 30
    /\ main_pc = "not started"
    /\ repos = NoneValue
    /\ repo_index = 0
    /\ trigger_tasks = <<>>
    /\ requests = <<>>
    /\ tasks = <<>>
    /\ workflow_log = <<>>
    /\ answered = {}

\* the deploy tool before main() is run
DeployStart ==
    /\ deploy_env = <<>>
    /\ deploy_pc = "not started"
    /\ host_index = 0
    /\ deploy_log = <<>>
    /\ ssh_log = <<>>
    /\ remote_commands = <<>>
    /\ remote_containers = {}

UpgradeStart ==
    /\ upgrade_pc = "not started"
    /\ installed_packages = <<>>
    /\ fetches = <<>>
    /\ latest_versions = <<>>
    /\ upgrade_index = 0
    /\ upgrade_output = <<>>
    /\ upgrade_commands = <<>>

NovelStart ==
    /\ chapter_ids = <<>>
    /\ item_ids = <<>>
    /\ novel_pc = "not started"
    /\ chapter_tasks = <<>>
    /\ temp_files = {}
    /\ novel_file = <<>>
    /\ removed_files = {}

IpStart ==
    /\ ip_file = [exists |-> FALSE, lines |-> <<>>]
    /\ ip_logged = 0
    /\ trim = [pc |-> "idle", lines |-> <<>>]
    /\ trim_done = [ran |-> FALSE, before |-> <<>>, after |-> <<>>]

QueueStart ==
    /\ command_queue = <<>>
    /\ added = <<>>

PadStart ==
    /\ pad_input = [string |-> <<>>, length |-> 0]
    /\ pad_output = [done |-> FALSE, text |-> <<>>]

ReportStart ==
    /\ error_file = <<>>
    /\ last_error_report_time = -1

IpreqStart ==
    /\ ip_request = [pc |-> "idle", addr |-> None, ip |-> None, real_time |-> FALSE]
    /\ ip_lookups = <<>>

BatchStart ==
    /\ stats = [total_calls |-> 0, successful_calls |-> 0, failed_calls |-> 0,
                rate_limited_calls |-> 0]
    /\ batch_results = <<>>

\* every command-line tool before it is run
ToolsStart == DeployStart /\ UpgradeStart /\ NovelStart /\ IpStart /\ QueueStart /\ PadStart /\ ReportStart /\ IpreqStart /\ BatchStart

TtsInit ==
    /\ now = 0
    /\ TtsStart
    /\ CtlStart
    /\ GhStart
    /\ ToolsStart
    /\ IpreqStart
    /\ BatchStart

-----------------------------------------------------------------------------
(* report_error and its throttle *)

\* can_report_error: <<the new last_error_report_time, the value returned>>
can_report_error(last, t) ==
    IF last = -1 \/ t - last > 10 THEN <<t, TRUE>> ELSE <<last, FALSE>>

\* report_error(error_message): <<error.txt, last_error_report_time>> after it.
\* In tts() each call of it follows a raise in the same block (lines 274-275,
\* 285-286, 305-306), so tts() never reaches it.
report_error(file, last, error_message, t) ==
    <<Append(file, <<strftime(t), error_message>>), can_report_error(last, t)[1]>>

-----------------------------------------------------------------------------
(* json.dumps and base64.b64encode, over ASCII text *)

\* the characters with codes 32..126, in order ("grave" stands for code 96,
\* which a TLA+ string cannot hold)
AsciiPrintable == <<
    " ", "!", "\"", "#", "$", "%", "&", "'", "(", ")", "*", "+",
    ",", "-", ".", "/", "0", "1", "2", "3", "4", "5", "6", "7",
    "8", "9", ":", ";", "<", "=", ">", "?", "@", "A", "B", "C",
    "D", "E", "F", "G", "H", "I", "J", "K", "L", "M", "N", "O",
    "P", "Q", "R", "S", "T", "U", "V", "W", "X", "Y", "Z", "[",
    "\\", "]", "^", "_", "grave", "a", "b", "c", "d", "e", "f", "g",
    "h", "i", "j", "k", "l", "m", "n", "o", "p", "q", "r", "s",
    "t", "u", "v", "w", "x", "y", "z", "{", "|", "}", "~">>

\* ord(c) of an ASCII character
Ord(c) == IF c = "\n" THEN 10
          ELSE 31 + (CHOOSE i \in 1..Len(AsciiPrintable) : AsciiPrintable[i] = c)

Chr(n) == IF n = 10 THEN "\n" ELSE AsciiPrintable[n - 31]

\* text.encode("utf-8") / bytes.decode("utf-8")
Encode(text) == [i \in 1..Len(text) |-> Ord(text[i])]

Decode(bytes) == [i \in 1..Len(bytes) |-> Chr(bytes[i])]

\* how json.dumps writes one character of a string
JsonEscape(c) ==
    IF c = "\n" THEN <<"\\", "n">>
    ELSE IF c = "\"" THEN <<"\\", "\"">>
    ELSE IF c = "\\" THEN <<"\\", "\\">>
    ELSE <<c>>

RECURSIVE JsonString(_)
JsonString(text) ==
    IF text = <<>> THEN <<>> ELSE JsonEscape(Head(text)) \o JsonString(Tail(text))

\* json.dumps({"text": text})
json_dumps(text) ==
    <<"{", "\"", "t", "e", "x", "t", "\"", ":", " ", "\"">> \o JsonString(text) \o <<"\"", "}">>

Base64Alphabet == <<
    "A", "B", "C", "D", "E", "F", "G", "H", "I", "J", "K", "L", "M", "N", "O", "P",
    "Q", "R", "S", "T", "U", "V", "W", "X", "Y", "Z", "a", "b", "c", "d", "e", "f",
    "g", "h", "i", "j", "k", "l", "m", "n", "o", "p", "q", "r", "s", "t", "u", "v",
    "w", "x", "y", "z", "0", "1", "2", "3", "4", "5", "6", "7", "8", "9", "+", "/">>

\* the four characters base64 writes for b1 and, when present, b2 and b3
Base64Group(bytes) ==
    LET n  == Len(bytes)
        b1 == bytes[1]
        b2 == IF n >= 2 THEN bytes[2] ELSE 0
        b3 == IF n >= 3 THEN bytes[3] ELSE 0
        v  == b1 * 65536 + b2 * 256 + b3
        C(k) == Base64Alphabet[((v \div k) % 64) + 1]
    IN  <<C(262144), C(4096),
          IF n >= 2 THEN C(64) ELSE "=",
          IF n >= 3 THEN C(1) ELSE "=">>

\* base64.b64encode(bytes).decode("utf-8")
RECURSIVE b64encode(_)
b64encode(bytes) ==
    IF bytes = <<>> THEN <<>>
    ELSE IF Len(bytes) <= 3 THEN Base64Group(bytes)
    ELSE Base64Group(SubSeq(bytes, 1, 3)) \o b64encode(SubSeq(bytes, 4, Len(bytes)))

-----------------------------------------------------------------------------
(* The control HTTP service: the before_request hook and its routes *)

PASSWORD == "wmy"

TIME_WINDOW == 60

MAX_ATTEMPTS == 1

\* the values of SERVER_PASSWORD
Configured == {None, Secret}

\* request.args.get("password") or data.get("password"): None when absent
Passwords == {None, Secret, PASSWORD}

\* request.remote_addr
Addresses == {"10.0.0.1", "10.0.0.2"}

\* randint(lo, hi): its least and its greatest value
randint(lo, hi) == {lo, hi}

RECURSIVE SumCounts(_)
SumCounts(attempts) ==
    IF attempts = <<>> THEN 0 ELSE Head(attempts)[2] + SumCounts(Tail(attempts))

Unexpired_Inclusive(attempt_time, t) == t - attempt_time <= TIME_WINDOW

\* now - attempt_time < TIME_WINDOW
Unexpired(attempt_time, t) == t - attempt_time < TIME_WINDOW

\* limit_requests, first half: failed_attempts with the expired attempts of ip dropped
CleanAttempts(fa, ip, t) ==
    IF ip \in DOMAIN fa
    THEN [fa EXCEPT ![ip] = SelectSeq(@, LAMBDA a : Unexpired(a[1], t))]
    ELSE fa

\* limit_requests, second half: whether the request is answered 429
TooManyAttempts(fa, ip) == ip \in DOMAIN fa /\ SumCounts(fa[ip]) >= MAX_ATTEMPTS

\* failed_attempts[ip].append((now, 1)), the list created when absent
RecordFailure(fa, ip, t) ==
    LET old == IF ip \in DOMAIN fa THEN fa[ip] ELSE <<>> IN
    [a \in DOMAIN fa \cup {ip} |-> IF a = ip THEN Append(old, <<t, 1>>) ELSE fa[a]]

\* password == correct_password
PasswordMatches(password, correct) == password = correct

Answer(route, ip, password, status, body) ==
    [route |-> route, ip |-> ip, password |-> password, at |-> now,
     status |-> status, body |-> body]

TooManyBody == [error |-> "too many failed attempts, retry later"]

\* limit_requests answering for the view: 429, the pruned attempts kept
TooMany(route, ip, password, fa) ==
    /\ failed_attempts' = fa
    /\ failure_log' = failure_log
    /\ response' = Answer(route, ip, password, 429, TooManyBody)

\* GET /doing
Doing(ip, password) ==
    LET fa == CleanAttempts(failed_attempts, ip, now) IN
    /\ UNCHANGED <<now, correct_password, ctlRest>>
    /\ IF TooManyAttempts(fa, ip)
       THEN TooMany("/doing", ip, password, fa)
       ELSE
             /\ failed_attempts' = fa
             /\ failure_log' = failure_log
             /\ response' =
                  IF PasswordMatches(password, correct_password)
                  THEN Answer("/doing", ip, password, 200,
                              [data |-> b64encode(Encode(json_dumps(current_processing_text)))])
                  ELSE Answer("/doing", ip, password, 401, [error |-> "Invalid password"])

\* what psutil can report of the host, which booted at time 0: cpu percent,
\* memory total in MiB, and memory used in MiB with its percentage
HostStatus == [boot_time |-> "host boot time", cpu |-> {0, 37, 100},
               total |-> 4096, memory |-> {<<1024, 30>>, <<4096, 100>>}]

\* GET /server_status
ServerStatus(ip, password) ==
    LET fa == CleanAttempts(failed_attempts, ip, now) IN
    /\ UNCHANGED <<now, correct_password, ctlRest>>
    /\ IF TooManyAttempts(fa, ip)
       THEN TooMany("/server_status", ip, password, fa)
       ELSE
             /\ failed_attempts' = fa
             /\ failure_log' = failure_log
             /\ IF PasswordMatches(password, correct_password)
                THEN \E cpu \in HostStatus.cpu, memory \in HostStatus.memory :
                       response' = Answer("/server_status", ip, password, 200,
                           [boot_time |-> HostStatus.boot_time,
                            uptime |-> now,
                            cpu_usage_percent |-> cpu,
                            memory_usage |-> [used |-> memory[1], total |-> HostStatus.total,
                                              percent |-> memory[2]]])
                ELSE \E uptime \in randint(1800, 36000), cpu \in randint(5, 95),
                        used \in randint(500, 8 * 1024),
                        total \in randint(2 * 1024, 16 * 1024),
                        percent \in randint(5, 95) :
                       response' = Answer("/server_status", ip, password, 200,
                           [boot_time |-> "2023-01-01 00:00:00",
                            uptime |-> uptime,
                            cpu_usage_percent |-> cpu,
                            memory_usage |-> [used |-> used, total |-> total,
                                              percent |-> percent]])

Greeting == "Hello, this is my Gradio project!"

\* the uncaught NameError of a view, as Flask answers it
InternalServerError == [error |-> "Internal Server Error"]

\* GET /hello: the mismatch branch evaluates random.choices(string.ascii_letters
\* ...), and the module imports neither `random` nor `string`
Hello(ip, password) ==
    LET fa == CleanAttempts(failed_attempts, ip, now) IN
    /\ UNCHANGED <<now, correct_password, ctlRest>>
    /\ IF TooManyAttempts(fa, ip)
       THEN TooMany("/hello", ip, password, fa)
       ELSE
             /\ failed_attempts' = fa
             /\ failure_log' = failure_log
             /\ response' =
                  IF PasswordMatches(password, correct_password)
                  THEN Answer("/hello", ip, password, 200, [return_data |-> Greeting])
                  ELSE Answer("/hello", ip, password, 500, InternalServerError)

\* POST /email; msgtype_ok: msgtype is "markdown"; has_content: markdown.content
\* is not empty; sent: resend.Emails.send succeeds
Email(ip, password, msgtype_ok, has_content, sent) ==
    LET fa == CleanAttempts(failed_attempts, ip, now) IN
    /\ UNCHANGED <<now, correct_password, ctlRest>>
    /\ IF TooManyAttempts(fa, ip)
       THEN TooMany("/email", ip, password, fa)
       ELSE
             IF password # PASSWORD
             THEN /\ failed_attempts' = RecordFailure(fa, ip, now)
                  /\ failure_log' = failure_log \cup {<<ip, now>>}
                  /\ response' = Answer("/email", ip, password, 403, [error |-> "wrong password"])
             ELSE /\ failed_attempts' = fa
                  /\ failure_log' = failure_log
                  /\ response' =
                       IF ~msgtype_ok
                       THEN Answer("/email", ip, password, 400, [error |-> "msgtype must be 'markdown'"])
                       ELSE IF ~has_content
                       THEN Answer("/email", ip, password, 400, [error |-> "no content"])
                       ELSE IF sent
                       THEN Answer("/email", ip, password, 200, [success |-> TRUE])
                       ELSE Answer("/email", ip, password, 500, [error |-> "send failed"])

\* the texts tts() can have left in current_processing_text
LeftTexts == {EmptyText, TextA, <<"a", "\"", "\n", "\\">>}

CtlInit ==
    /\ now = 0
    /\ calls = <<>>
    /\ attempt_result = <<>>
    /\ allowed_log = <<>>
    /\ processed_texts = {}
    /\ processed_file = <<>>
    /\ current_processing_text \in LeftTexts
    /\ tts_result = [text |-> EmptyText, kind |-> "none", value |-> None]
    /\ api_calls = <<>>
    /\ submitted = {}
    /\ correct_password \in Configured
    /\ failed_attempts = <<>>
    /\ response = [route |-> "none"]
    /\ failure_log = {}
    /\ GhStart
    /\ ToolsStart
    /\ IpreqStart
    /\ BatchStart

-----------------------------------------------------------------------------
(* The GitHub re-trigger service: main() and the tasks it creates *)

\* json of a response body
Json(value) == [is_none |-> FALSE, value |-> value]

\* the repositories of the account, as GitHub lists them
AllRepos == [i \in 1..account |-> i]

\* GET /users/{username}/repos or /user/repos: page `page` of `per_page` items
RepoPage(per_page, page) ==
    LET first == (page - 1) * per_page + 1
        last  == Min({account, page * per_page})
    IN  IF first > last THEN <<>> ELSE SubSeq(AllRepos, first, last)

\* GET /repos/{USERNAME}/{name}
RepoDetail(repo) == [name |-> repo, default_branch |-> IF repo % 2 = 0 THEN "main" ELSE "master"]

Call(helper, method, url, params) ==
    [helper |-> helper, method |-> method, url |-> url, params |-> params]

\* make_request: the decoded body of a 200 answer, None for anything else
make_request(status, body) == IF status # 200 THEN NoneValue ELSE Json(body)

\* get_repos(username, token), the definition in force when main() runs: one
\* GET that names neither per_page nor page, made outside make_request
get_repos(status) == IF status = 200 THEN Json(RepoPage(default_per_page, 1)) ELSE NoneValue

\* the statuses GitHub answers a GET with
GetStatuses == {200, 404}

\* one line of workflow_failures.log: what it reports and of which repository,
\* workflow or run
Line(event, item) == [event |-> event, item |-> item]

\* asyncio.create_task: the task exists and has not run yet
create_task(ts, key) == [k \in DOMAIN ts \cup {key} |-> IF k = key THEN "created" ELSE ts[k]]

\* main(): repos = await get_repos(USERNAME, TOKEN)
MainGetRepos ==
    /\ main_pc = "get_repos"
    /\ \E status \in GetStatuses : repos' = get_repos(status)
    /\ requests' = Append(requests, Call(FALSE, "GET", <<"users", "repos">>, <<>>))
    /\ main_pc' = "for repo"
    /\ UNCHANGED <<now, ghRest, account, default_per_page, repo_index, trigger_tasks,
                   tasks, workflow_log, answered>>

\* main(): `for repo in repos` over None raises TypeError
MainReposNone ==
    /\ main_pc = "for repo"
    /\ repos.is_none
    /\ main_pc' = "TypeError"
    /\ UNCHANGED <<now, ghRest, account, default_per_page, repos, repo_index,
                   trigger_tasks, requests, tasks, workflow_log, answered>>

\* main(): one turn of the first for loop: get_default_branch through
\* make_request, data.get on its result, then create_task(trigger_workflows)
MainDefaultBranch ==
    /\ main_pc = "for repo"
    /\ ~repos.is_none
    /\ repo_index < Len(repos.value)
    /\ LET repo == repos.value[repo_index + 1] IN
       /\ requests' = Append(requests, Call(TRUE, "GET", <<"repos", repo>>, <<>>))
       /\ \E status \in GetStatuses :
            LET data == make_request(status, RepoDetail(repo)) IN
            IF data.is_none
            THEN /\ main_pc' = "AttributeError"
                 /\ workflow_log' = Append(workflow_log, Line("request failed", repo))
                 /\ UNCHANGED <<repo_index, trigger_tasks, tasks>>
            ELSE /\ main_pc' = "for repo"
                 /\ repo_index' = repo_index + 1
                 /\ trigger_tasks' = Append(trigger_tasks, <<repo, data.value.default_branch>>)
                 /\ tasks' = create_task(tasks, <<"trigger", repo>>)
                 /\ UNCHANGED workflow_log
    /\ UNCHANGED <<now, ghRest, account, default_per_page, repos, answered>>

\* main(): the first for loop is exhausted
MainGather ==
    /\ main_pc = "for repo"
    /\ ~repos.is_none
    /\ repo_index = Len(repos.value)
    /\ main_pc' = "gather"
    /\ UNCHANGED <<now, ghRest, account, default_per_page, repos, repo_index,
                   trigger_tasks, requests, tasks, workflow_log, answered>>

DEFAULT_WAIT_TIME == 1200

\* GET /repos/{USERNAME}/{name}/actions/workflows: the ids of the workflows
WorkflowsOf(repo) == [k \in 1..(repo % 3) |-> 10 * repo + k]

\* GET /repos/{USERNAME}/{name}/actions/runs: the runs of the repository
RunsOf(repo) ==
    IF repo % 2 = 1
    THEN <<[id |-> 100 * repo + 1, conclusion |-> "success"],
           [id |-> 100 * repo + 2, conclusion |-> "failure"]>>
    ELSE <<[id |-> 100 * repo + 1, conclusion |-> "failure"],
           [id |-> 100 * repo + 2, conclusion |-> "success"],
           [id |-> 100 * repo + 3, conclusion |-> "failure"]>>

\* the runs check_and_log_failed_runs asks to delete, in order
FailedRuns(repo) == SelectSeq(RunsOf(repo), LAMBDA run : run.conclusion = "failure")

\* the statuses GitHub answers a dispatch or a deletion with
WriteStatuses == {204, 404}

\* zip(items, responses): the pairs up to the shorter length
zip(items, responses) ==
    [i \in 1..Min({Len(items), Len(responses)}) |-> <<items[i], responses[i]>>]

\* `resp and resp['status'] == 204`
IsSuccess(resp) == ~resp.is_none /\ resp.value.status = 204

\* the result lines of trigger_workflows, one per zipped pair
TriggerLines(pairs) ==
    [i \in 1..Len(pairs) |->
        Line(IF IsSuccess(pairs[i][2]) THEN "triggered" ELSE "trigger failed", pairs[i][1])]

\* the result lines of check_and_log_failed_runs, one per zipped pair
DeleteLines(pairs) ==
    [i \in 1..Len(pairs) |->
        Line(IF IsSuccess(pairs[i][2]) THEN "deleted" ELSE "delete failed", pairs[i][1].id)]

\* the lines make_request logs for the requests it returns None for
FailureLines(items, responses) ==
    LET failed == SelectSeq([i \in 1..Len(items) |-> <<items[i], responses[i]>>],
                            LAMBDA p : p[2].is_none)
    IN  [i \in 1..Len(failed) |-> Line("request failed", failed[i][1])]

\* the branch main() passed to trigger_workflows for repo
BranchOf(repo) ==
    LET i == CHOOSE j \in 1..Len(trigger_tasks) : trigger_tasks[j][1] = repo
    IN  trigger_tasks[i][2]

\* main() is suspended in an await, so that its tasks can run
MainAwaits == main_pc \in {"for repo", "gather", "sleep", "gather deletes"}

TasksOf(kind) == {key \in DOMAIN tasks : key[1] = kind}

\* trigger_workflows up to its gather: the workflow list through make_request,
\* data.get on its result
TriggerList(repo) ==
    LET key == <<"trigger", repo>> IN
    /\ MainAwaits
    /\ key \in DOMAIN tasks
    /\ tasks[key] = "created"
    /\ requests' = Append(requests, Call(TRUE, "GET", <<"workflows", repo>>, <<>>))
    /\ \E status \in GetStatuses :
         LET data == make_request(status, [workflows |-> WorkflowsOf(repo)]) IN
         IF data.is_none
         THEN /\ tasks' = [tasks EXCEPT ![key] = "AttributeError"]
              /\ workflow_log' = Append(workflow_log, Line("request failed", repo))
         ELSE /\ tasks' = [tasks EXCEPT ![key] = "dispatching"]
              /\ UNCHANGED workflow_log
    /\ UNCHANGED <<now, ghRest, account, default_per_page, main_pc, repos, repo_index,
                   trigger_tasks, answered>>

\* trigger_workflows from its gather on: every dispatch through make_request,
\* then one result line per zipped pair
TriggerDispatch(repo) ==
    LET key == <<"trigger", repo>>
        workflows == WorkflowsOf(repo)
    IN
    /\ MainAwaits
    /\ key \in DOMAIN tasks
    /\ tasks[key] = "dispatching"
    /\ \E statuses \in [1..Len(workflows) -> WriteStatuses] :
         LET responses == [i \in 1..Len(workflows) |-> make_request(statuses[i], <<>>)] IN
         /\ answered' = answered \cup
                {[method |-> "POST", item |-> workflows[i], status |-> statuses[i]] :
                    i \in 1..Len(workflows)}
         /\ workflow_log' = workflow_log \o FailureLines(workflows, responses)
                                \o TriggerLines(zip(workflows, responses))
    /\ requests' = requests \o
         [i \in 1..Len(workflows) |->
             Call(TRUE, "POST", <<"dispatches", workflows[i]>>, <<BranchOf(repo)>>)]
    /\ tasks' = [tasks EXCEPT ![key] = "done"]
    /\ UNCHANGED <<now, ghRest, account, default_per_page, main_pc, repos, repo_index,
                   trigger_tasks>>

\* main(): gather(*trigger_tasks) raises what a task raised
MainTriggerRaises ==
    /\ main_pc = "gather"
    /\ \E key \in TasksOf("trigger") : tasks[key] = "AttributeError"
    /\ main_pc' = "AttributeError"
    /\ UNCHANGED <<now, ghRest, account, default_per_page, repos, repo_index,
                   trigger_tasks, requests, tasks, workflow_log, answered>>

\* main(): every trigger task is done; log the wait and sleep
MainSleep ==
    /\ main_pc = "gather"
    /\ \A key \in TasksOf("trigger") : tasks[key] = "done"
    /\ workflow_log' = Append(workflow_log, Line("waiting", 0))
    /\ main_pc' = "sleep"
    /\ UNCHANGED <<now, ghRest, account, default_per_page, repos, repo_index,
                   trigger_tasks, requests, tasks, answered>>

\* main(): the sleep is over; one check_and_log_failed_runs task per repo
MainWake ==
    /\ main_pc = "sleep"
    /\ now' = now + DEFAULT_WAIT_TIME
    /\ tasks' = [key \in DOMAIN tasks \cup {<<"delete", repos.value[i]>> : i \in 1..Len(repos.value)} |->
                    IF key \in DOMAIN tasks THEN tasks[key] ELSE "created"]
    /\ main_pc' = "gather deletes"
    /\ UNCHANGED <<ghRest, account, default_per_page, repos, repo_index,
                   trigger_tasks, requests, workflow_log, answered>>

\* check_and_log_failed_runs up to its gather: the run list through
\* make_request, data.get on its result, one line per failed run
DeleteList(repo) ==
    LET key == <<"delete", repo>> IN
    /\ MainAwaits
    /\ key \in DOMAIN tasks
    /\ tasks[key] = "created"
    /\ requests' = Append(requests, Call(TRUE, "GET", <<"runs", repo>>, <<>>))
    /\ \E status \in GetStatuses :
         LET data == make_request(status, [workflow_runs |-> RunsOf(repo)]) IN
         IF data.is_none
         THEN /\ tasks' = [tasks EXCEPT ![key] = "AttributeError"]
              /\ workflow_log' = Append(workflow_log, Line("request failed", repo))
         ELSE /\ tasks' = [tasks EXCEPT ![key] = "deleting"]
              /\ workflow_log' = workflow_log \o
                    [i \in 1..Len(FailedRuns(repo)) |-> Line("failed run", FailedRuns(repo)[i].id)]
    /\ UNCHANGED <<now, ghRest, account, default_per_page, main_pc, repos, repo_index,
                   trigger_tasks, answered>>

\* check_and_log_failed_runs from its gather on: every deletion through
\* make_request, then one result line per pair of zip(all runs, responses)
DeleteRuns(repo) ==
    LET key == <<"delete", repo>>
        failed == FailedRuns(repo)
    IN
    /\ MainAwaits
    /\ key \in DOMAIN tasks
    /\ tasks[key] = "deleting"
    /\ \E statuses \in [1..Len(failed) -> WriteStatuses] :
         LET responses == [i \in 1..Len(failed) |-> make_request(statuses[i], <<>>)] IN
         /\ answered' = answered \cup
                {[method |-> "DELETE", item |-> failed[i].id, status |-> statuses[i]] :
                    i \in 1..Len(failed)}
         /\ workflow_log' = workflow_log
                \o FailureLines([i \in 1..Len(failed) |-> failed[i].id], responses)
                \o DeleteLines(zip(RunsOf(repo), responses))
    /\ requests' = requests \o
         [i \in 1..Len(failed) |-> Call(TRUE, "DELETE", <<"runs", failed[i].id>>, <<>>)]
    /\ tasks' = [tasks EXCEPT ![key] = "done"]
    /\ UNCHANGED <<now, ghRest, account, default_per_page, main_pc, repos, repo_index,
                   trigger_tasks>>

\* main(): gather(*delete_tasks) raises what a task raised
MainDeleteRaises ==
    /\ main_pc = "gather deletes"
    /\ \E key \in TasksOf("delete") : tasks[key] = "AttributeError"
    /\ main_pc' = "AttributeError"
    /\ UNCHANGED <<now, ghRest, account, default_per_page, repos, repo_index,
                   trigger_tasks, requests, tasks, workflow_log, answered>>

\* main(): every deletion task is done, and so is main()
MainDone ==
    /\ main_pc = "gather deletes"
    /\ \A key \in TasksOf("delete") : tasks[key] = "done"
    /\ main_pc' = "done"
    /\ UNCHANGED <<now, ghRest, account, default_per_page, repos, repo_index,
                   trigger_tasks, requests, tasks, workflow_log, answered>>

\* how many repositories the account has
AccountSizes == {0, 50, 150}

\* GitHub lists 30 items where no per_page is named; the listing of 150
\* repositories as pages of 100 and 50 lists 100
PageSizes == {30, 100}

GhInit ==
    /\ now = 0
    /\ TtsStart
    /\ CtlStart
    /\ account \in AccountSizes
    /\ default_per_page \in PageSizes
    /\ main_pc = "get_repos"
    /\ repos = NoneValue
    /\ repo_index = 0
    /\ trigger_tasks = <<>>
    /\ requests = <<>>
    /\ tasks = <<>>
    /\ workflow_log = <<>>
    /\ answered = {}
    /\ ToolsStart

\* accounts small enough to follow every task of a run
SmallAccounts == {0, 1, 2}

RunInit ==
    /\ now = 0
    /\ TtsStart
    /\ CtlStart
    /\ account \in SmallAccounts
    /\ default_per_page = 30
    /\ main_pc = "get_repos"
    /\ repos = NoneValue
    /\ repo_index = 0
    /\ trigger_tasks = <<>>
    /\ requests = <<>>
    /\ tasks = <<>>
    /\ workflow_log = <<>>
    /\ answered = {}
    /\ ToolsStart

-----------------------------------------------------------------------------
(* The deploy tool: scripts/deploy_image.py *)

\* an environment variable that is not set
Unset == <<"<unset>">>

\* os.getenv(name, default)
getenv(value, default) == IF value = Unset THEN default ELSE value

\* int(s) of a string of digits
RECURSIVE int(_)
int(s) ==
    IF s = <<>> THEN 0
    ELSE 10 * int(SubSeq(s, 1, Len(s) - 1))
         + (CHOOSE d \in 0..9 : DigitChars[d + 1] = s[Len(s)])

\* str(n) of a number below ten
str(n) == <<DigitChars[n + 1]>>

image_url(env) == Strip(getenv(env.IMAGE_URL, <<>>))

server_addresses(env) == Split(getenv(env.SERVER_ADDRESS, <<>>), <<",">>)

usernames(env) == Split(getenv(env.USERNAME, <<>>), <<",">>)

ports(env) == Split(getenv(env.PORT, <<"2", "2">>), <<",">>)

private_keys(env) == Split(getenv(env.PRIVATE_KEY, <<>>), <<",">>)

container_names_list(env) == Split(getenv(env.CONTAINER_NAMES, <<>>), <<",">>)

SameLengths_FirstTwo(a, b, c, d, e) == Len(a) = Len(b)

\* len(a) == len(b) == len(c) == len(d) == len(e)
SameLengths(a, b, c, d, e) ==
    Len(a) = Len(b) /\ Len(b) = Len(c) /\ Len(c) = Len(d) /\ Len(d) = Len(e)

\* [name.strip() for name in entry.split("&") if name.strip()]
container_names(entry) ==
    LET parts == Split(entry, <<"&">>)
        names == [k \in 1..Len(parts) |-> Strip(parts[k])]
    IN  SelectSeq(names, LAMBDA name : name # <<>>)

\* the configuration of the i-th server, i counted from 0
HostConfig(env, i) ==
    [server_address |-> Strip(server_addresses(env)[i + 1]),
     username |-> Strip(usernames(env)[i + 1]),
     port |-> IF Strip(ports(env)[i + 1]) # <<>> THEN int(Strip(ports(env)[i + 1])) ELSE 22,
     private_key |-> Strip(private_keys(env)[i + 1]),
     container_names |-> container_names(container_names_list(env)[i + 1])]

\* all([server_address, username, private_key, image_url, container_names])
Complete(cfg, image) ==
    /\ cfg.server_address # <<>>
    /\ cfg.username # <<>>
    /\ cfg.private_key # <<>>
    /\ image # <<>>
    /\ cfg.container_names # <<>>

DeployLine(event, item) == [event |-> event, item |-> item]

\* a remote command: its host, what it is, and the container it names
Command(host, command, name) == <<host, command, name>>

\* new_container_name: `_old` is appended until the name is free
RECURSIVE new_container_name(_, _)
new_container_name(candidate, existing) ==
    IF candidate \in existing THEN new_container_name(candidate \o <<"_old">>, existing)
    ELSE candidate

\* what can happen to a container that is recreated.  running: it is running,
\* so `docker rm` without -f fails.  race: exec_command does not wait for
\* `docker rename` and `docker rm` to finish, so `docker inspect` of the new
\* name can run before the rename ("inspect early"), and the `docker rm` too
\* ("rm early").  run_ok: docker run succeeds.
Outcomes ==
    {[running |-> r, race |-> "none", run_ok |-> ok] : r \in BOOLEAN, ok \in BOOLEAN}
    \cup {[running |-> r, race |-> "inspect early", run_ok |-> FALSE] : r \in BOOLEAN}
    \cup {[running |-> TRUE, race |-> "rm early", run_ok |-> FALSE]}

\* recreate_container: the commands it runs and the containers of the host
\* afterwards
recreate_container(host, name, existing, outcome) ==
    LET new     == new_container_name(name \o <<"_old">>, existing)
        renamed == (existing \ {name}) \cup {new}
        first   == <<Command(host, "docker ps", <<>>), Command(host, "docker rename", name),
                     Command(host, "docker inspect", new), Command(host, "docker rm", new)>>
        removed == IF outcome.running THEN renamed ELSE renamed \ {new}
    IN  IF outcome.race = "rm early"
        THEN [commands |-> first, containers |-> renamed]
        ELSE IF outcome.race = "inspect early"
        THEN [commands |-> first, containers |-> removed]
        ELSE [commands |-> first \o <<Command(host, "docker ps", <<>>)>>
                          \o (IF new \in removed THEN <<Command(host, "docker rm -f", new)>>
                              ELSE <<>>)
                          \o <<Command(host, "docker run", name)>>,
              containers |-> IF outcome.run_ok THEN (removed \ {new}) \cup {name}
                             ELSE removed \ {new}]

\* one turn of `for container_name in container_names`: backup_container_settings,
\* pull_docker_image and recreate_container
ContainerCommands(host, name, existing, image, outcome) ==
    LET backup == <<Command(host, "docker inspect", name)>>
        pull   == IF Contains(image, <<":">>) THEN <<Command(host, "docker pull", <<>>)>>
                  ELSE <<>>
        done   == recreate_container(host, name, existing, outcome)
    IN  IF name \notin existing
        THEN [commands |-> backup, containers |-> existing]
        ELSE [commands |-> backup \o pull \o done.commands, containers |-> done.containers]

\* the loop over container_names, then cleanup_unused_images
RECURSIVE HostCommands(_, _, _, _, _)
HostCommands(host, names, existing, image, outcomes) ==
    IF names = <<>>
    THEN [commands |-> <<Command(host, "docker image prune", <<>>)>>, containers |-> existing]
    ELSE LET turn == ContainerCommands(host, Head(names), existing, image, Head(outcomes))
             rest == HostCommands(host, Tail(names), turn.containers, image, Tail(outcomes))
         IN  [commands |-> turn.commands \o rest.commands, containers |-> rest.containers]

\* the containers of a host
ContainersOf(host) == {c[2] : c \in {d \in remote_containers : d[1] = host}}

\* main() up to its for loop: the lists are read and their lengths compared
DeployMain ==
    /\ deploy_pc = "main"
    /\ IF SameLengths(server_addresses(deploy_env), usernames(deploy_env), ports(deploy_env),
                      private_keys(deploy_env), container_names_list(deploy_env))
       THEN /\ deploy_pc' = "hosts"
            /\ UNCHANGED deploy_log
       ELSE /\ deploy_pc' = "returned"
            /\ deploy_log' = Append(deploy_log, DeployLine("lists differ in length", <<>>))
    /\ UNCHANGED <<now, deployRest, deploy_env, host_index, ssh_log, remote_commands,
                   remote_containers>>

\* main(): one turn of `for i in range(num_servers)`
DeployHost ==
    /\ deploy_pc = "hosts"
    /\ host_index < Len(server_addresses(deploy_env))
    /\ LET cfg   == HostConfig(deploy_env, host_index)
           image == image_url(deploy_env)
           host  == cfg.server_address
       IN
       IF ~Complete(cfg, image)
       THEN /\ deploy_log' = Append(deploy_log, DeployLine("configuration missing", str(host_index + 1)))
            /\ host_index' = host_index + 1
            /\ UNCHANGED <<deploy_pc, ssh_log, remote_commands, remote_containers>>
       ELSE \E connected \in BOOLEAN :
              /\ ssh_log' = Append(ssh_log, <<host, connected>>)
              /\ IF ~connected
                 THEN /\ deploy_pc' = "exception"
                      /\ deploy_log' = Append(deploy_log, DeployLine("processing", host))
                      /\ UNCHANGED <<host_index, remote_commands, remote_containers>>
                 ELSE \E outcomes \in [1..Len(cfg.container_names) -> Outcomes],
                         uploaded \in BOOLEAN :
                        LET run == HostCommands(host, cfg.container_names, ContainersOf(host),
                                                image, outcomes)
                        IN
                        /\ remote_commands' = remote_commands \o run.commands
                        /\ remote_containers' =
                              {d \in remote_containers : d[1] # host}
                              \cup {<<host, name>> : name \in run.containers}
                        /\ deploy_log' = deploy_log \o
                              <<DeployLine("processing", host),
                                DeployLine(IF uploaded THEN "log uploaded" ELSE "log not uploaded",
                                           host)>>
                        /\ host_index' = host_index + 1
                        /\ UNCHANGED deploy_pc
    /\ UNCHANGED <<now, deployRest, deploy_env>>

\* main(): the for loop is exhausted
DeployDone ==
    /\ deploy_pc = "hosts"
    /\ host_index = Len(server_addresses(deploy_env))
    /\ deploy_pc' = "done"
    /\ UNCHANGED <<now, deployRest, deploy_env, host_index, deploy_log, ssh_log, remote_commands,
                   remote_containers>>

\* at most this many entries in a list
MaxHosts == 3

\* a list of n entries; the entry at `blank`, if any, is whitespace
EnvList(n, entry, blank) ==
    Join(<<",">>, [i \in 1..n |-> IF i = blank THEN <<" ">> ELSE entry])

\* the entry of CONTAINER_NAMES for the i-th server
ContainerList(n) ==
    Join(<<",">>, [i \in 1..n |-> IF i % 2 = 1 THEN <<"web", "&", " ", "db", " ">> ELSE <<"api">>])

AddressList(n) == Join(<<",">>, [i \in 1..n |-> <<"host">> \o str(i)])

Images == {Unset, <<"image">>, <<"image", ":", "v2">>}

\* the containers the lists name, on every host
Fleet == {<<<<"host">> \o str(i), name>> : i \in 1..MaxHosts, name \in {<<"web">>, <<"db">>, <<"api">>}}

\* the containers the hosts have: all that are named; those and a leftover of
\* an earlier run; only one of them
Fleets ==
    {Fleet,
     Fleet \cup {<<<<"host", "1">>, <<"web", "_old">>>>},
     {<<<<"host", "1">>, <<"db">>>>}}

DeployInit ==
    /\ now = 0
    /\ TtsStart
    /\ CtlStart
    /\ GhStart
    /\ UpgradeStart
    /\ NovelStart
    /\ IpStart
    /\ QueueStart
    /\ PadStart
    /\ ReportStart
    /\ IpreqStart
    /\ BatchStart
    /\ \E a \in 1..MaxHosts, u \in 1..MaxHosts, p \in 0..MaxHosts, k \in 1..MaxHosts,
          c \in 1..MaxHosts, blank \in {0, 2}, image \in Images :
          deploy_env = [IMAGE_URL |-> image,
                        SERVER_ADDRESS |-> AddressList(a),
                        USERNAME |-> EnvList(u, <<"root">>, blank),
                        PORT |-> IF p = 0 THEN Unset ELSE EnvList(p, <<"2", "2", "2", "2">>, 1),
                        PRIVATE_KEY |-> EnvList(k, <<"key">>, 0),
                        CONTAINER_NAMES |-> ContainerList(c)]
    /\ deploy_pc = "main"
    /\ host_index = 0
    /\ deploy_log = <<>>
    /\ ssh_log = <<>>
    /\ remote_commands = <<>>
    /\ remote_containers = {}

\* the deploy tool given lists of equal length, whatever the hosts hold
RecreateInit ==
    /\ now = 0
    /\ TtsStart
    /\ CtlStart
    /\ GhStart
    /\ UpgradeStart
    /\ NovelStart
    /\ IpStart
    /\ QueueStart
    /\ PadStart
    /\ ReportStart
    /\ IpreqStart
    /\ BatchStart
    /\ \E n \in 1..2, image \in Images :
          deploy_env = [IMAGE_URL |-> image,
                        SERVER_ADDRESS |-> AddressList(n),
                        USERNAME |-> EnvList(n, <<"root">>, 0),
                        PORT |-> EnvList(n, <<"2", "2">>, 0),
                        PRIVATE_KEY |-> EnvList(n, <<"key">>, 0),
                        CONTAINER_NAMES |-> ContainerList(n)]
    /\ deploy_pc = "main"
    /\ host_index = 0
    /\ deploy_log = <<>>
    /\ ssh_log = <<>>
    /\ remote_commands = <<>>
    /\ remote_containers \in Fleets

-----------------------------------------------------------------------------
(* The package upgrader: tools/upgrade_packages.py *)

MAX_RETRIES == 3

\* how many installed packages a run is given
MaxPackages == 2

\* packaging.version.parse(version) of a dotted release: its numbers
parse(version) ==
    LET parts == Split(version, <<".">>) IN [i \in 1..Len(parts) |-> int(parts[i])]

\* the comparison key of a release drops its trailing zeros
RECURSIVE ReleaseKey(_)
ReleaseKey(release) ==
    IF release # <<>> /\ release[Len(release)] = 0
    THEN ReleaseKey(SubSeq(release, 1, Len(release) - 1))
    ELSE release

\* Version.__lt__: the keys compare as tuples
VersionLess(a, b) ==
    LET ka == ReleaseKey(a)
        kb == ReleaseKey(b)
        common == Min({Len(ka), Len(kb)})
    IN  \/ \E i \in 1..common : ka[i] < kb[i] /\ \A j \in 1..(i - 1) : ka[j] = kb[j]
        \/ Len(ka) < Len(kb) /\ \A j \in 1..common : ka[j] = kb[j]

\* str(Version): the numbers joined by dots
VersionStr(release) == Join(<<".">>, [i \in 1..Len(release) |-> str(release[i])])

\* what `pip list --format=json` prints
PipList ==
    << [name |-> "requests", version |-> <<"1", ".", "9">>],
       [name |-> "flask", version |-> <<"2", ".", "0">>],
       [name |-> "httpx", version |-> <<"0", ".", "9">>] >>

\* response.json()["releases"] of the package index
Releases(package) ==
    IF package = "requests" THEN {<<"1", ".", "9">>, <<"2", ".", "0">>, <<"1", ".", "9", ".", "1">>}
    ELSE IF package = "flask" THEN {<<"2">>, <<"1", ".", "9">>}
    ELSE {<<"0", ".", "9">>, <<"1", ".", "0">>}

\* fetch_latest_version, one turn of its loop: what client.get and
\* raise_for_status do is the outcome
FetchOutcomes == {"ok", "RequestError", "HTTPStatusError"}

Pending == [retries |-> 0, kind |-> "pending", value |-> <<>>]

fetch_latest_version(package, fetch, outcome) ==
    IF outcome = "ok"
    THEN [fetch |-> [fetch EXCEPT !.kind = "str",
                                  !.value = VersionStr(CHOOSE v \in {parse(r) : r \in Releases(package)} :
                                                \A w \in {parse(r) : r \in Releases(package)} :
                                                    ~VersionLess(v, w))],
          printed |-> <<>>]
    ELSE IF outcome = "HTTPStatusError"
    THEN [fetch |-> [fetch EXCEPT !.kind = "HTTPStatusError"], printed |-> <<>>]
    ELSE IF fetch.retries + 1 <= MAX_RETRIES
    THEN [fetch |-> [fetch EXCEPT !.retries = @ + 1],
          printed |-> << <<"request error", package>> >>]
    ELSE [fetch |-> [fetch EXCEPT !.retries = @ + 1, !.kind = "None"],
          printed |-> << <<"request error", package>>, <<"retries failed", package>> >>]

\* safe_exec_command: the return code is read without waiting for the
\* process, so the command's output is returned or None is
ExecOutcomes == {"output", "None"}

\* main(): get_installed_packages, and get_latest_versions up to its gather
UpgradeMain ==
    /\ upgrade_pc = "not started"
    /\ \E n \in 0..Min({MaxPackages, Len(PipList)}), outcome \in ExecOutcomes :
          /\ installed_packages' = IF outcome = "None" THEN <<>> ELSE SubSeq(PipList, 1, n)
          /\ fetches' = [i \in 1..Len(installed_packages') |-> Pending]
          /\ upgrade_output' = IF outcome = "None"
                                 THEN << <<"command error", "pip list">> >>
                                 ELSE <<>>
    /\ upgrade_pc' = "gather"
    /\ UNCHANGED <<now, latest_versions, upgrade_index, upgrade_commands, upgradeRest>>

\* one fetch_latest_version coroutine runs up to its next await
Fetch ==
    /\ upgrade_pc = "gather"
    /\ \E i \in DOMAIN fetches, outcome \in FetchOutcomes :
          /\ fetches[i].kind = "pending"
          /\ LET turn == fetch_latest_version(installed_packages[i].name, fetches[i], outcome)
             IN  /\ fetches' = [fetches EXCEPT ![i] = turn.fetch]
                 /\ upgrade_output' = upgrade_output \o turn.printed
    /\ UNCHANGED <<now, upgrade_pc, installed_packages, latest_versions, upgrade_index,
                   upgrade_commands, upgradeRest>>

\* get_latest_versions after its gather: the results that are not exceptions
get_latest_versions(packages, results) ==
    SelectSeq([i \in 1..Len(packages) |->
                  [name |-> packages[i].name, kind |-> results[i].kind, value |-> results[i].value]],
              LAMBDA entry : entry.kind # "HTTPStatusError")

UpgradeGather ==
    /\ upgrade_pc = "gather"
    /\ \A i \in DOMAIN fetches : fetches[i].kind # "pending"
    /\ latest_versions' = get_latest_versions(installed_packages, fetches)
    /\ upgrade_pc' = "upgrade_packages"
    /\ UNCHANGED <<now, installed_packages, fetches, upgrade_index, upgrade_output,
                   upgrade_commands, upgradeRest>>

\* upgrade_packages, one turn of its loop, upgrade_package included
UpgradeOne ==
    /\ upgrade_pc = "upgrade_packages"
    /\ upgrade_index < Len(installed_packages)
    /\ upgrade_index' = upgrade_index + 1
    /\ LET package == installed_packages[upgrade_index + 1]
           found == {i \in DOMAIN latest_versions : latest_versions[i].name = package.name}
       IN  IF found = {}
           THEN /\ upgrade_output' = Append(upgrade_output, <<"skipped", package.name>>)
                /\ UNCHANGED <<upgrade_pc, upgrade_commands>>
           ELSE LET latest == latest_versions[CHOOSE i \in found : TRUE]
                IN  IF latest.kind = "None"
                    THEN \* parse(None) raises TypeError, which leaves main()
                         /\ upgrade_pc' = "TypeError"
                         /\ UNCHANGED <<upgrade_output, upgrade_commands>>
                    ELSE IF VersionLess(parse(package.version), parse(latest.value))
                    THEN /\ upgrade_commands' = Append(upgrade_commands, <<package.name, latest.value>>)
                         /\ upgrade_output' = Append(upgrade_output, <<"upgraded", package.name>>)
                         /\ UNCHANGED upgrade_pc
                    ELSE /\ upgrade_output' = Append(upgrade_output, <<"up to date", package.name>>)
                         /\ UNCHANGED <<upgrade_pc, upgrade_commands>>
    /\ UNCHANGED <<now, installed_packages, fetches, latest_versions, upgradeRest>>

\* main() after upgrade_packages
UpgradeDone ==
    /\ upgrade_pc = "upgrade_packages"
    /\ upgrade_index = Len(installed_packages)
    /\ upgrade_output' = Append(upgrade_output, <<"finished", "main">>)
    /\ upgrade_pc' = "done"
    /\ UNCHANGED <<now, installed_packages, fetches, latest_versions, upgrade_index,
                   upgrade_commands, upgradeRest>>

UpgradeInit ==
    /\ now = 0
    /\ TtsStart
    /\ CtlStart
    /\ GhStart
    /\ DeployStart
    /\ UpgradeStart
    /\ NovelStart
    /\ IpStart
    /\ QueueStart
    /\ PadStart
    /\ ReportStart
    /\ IpreqStart
    /\ BatchStart

-----------------------------------------------------------------------------
(* The novel downloader: test.py *)

\* how many chapters a book has at most
MaxChapters == 3

\* `while ii < 5` of fanqie_singe_chapter
MaxTries == 5

\* list.reverse()
Reverse(s) == [i \in 1..Len(s) |-> s[Len(s) + 1 - i]]

\* the text of a chapter's temporary file: title, three newlines, content
ChapterText(id) == <<"title", id, "\n\n\n", "content", id>>

\* asyncio.Semaphore(sema) of fanqie_create_tasks
Sema(lens) == IF lens > 100 THEN 100 ELSE lens

\* the tasks inside `async with sem`
Holding == {id \in DOMAIN chapter_tasks : chapter_tasks[id].state = "running"}

\* fanqie_download up to run_until_complete, and fanqie_create_tasks up to
\* its gather
DownloadStart ==
    /\ novel_pc = "fanqie_download"
    /\ IF Len(chapter_ids) > 0
       THEN /\ item_ids' = Reverse(chapter_ids)
            /\ chapter_tasks' = [id \in {chapter_ids[i] : i \in DOMAIN chapter_ids} |->
                                    [state |-> "created", ii |-> 0]]
            /\ novel_pc' = "gather"
       ELSE /\ novel_pc' = "done"
            /\ UNCHANGED <<item_ids, chapter_tasks>>
    /\ UNCHANGED <<now, chapter_ids, temp_files, novel_file, removed_files, novelRest>>

\* fanqie_singe_chapter: one turn of its loop, entering the semaphore first
\* and leaving it last.  The request fails, or the chapter's file is written.
ChapterTry(id) ==
    /\ novel_pc = "gather"
    /\ chapter_tasks[id].state \in {"created", "running"}
    /\ chapter_tasks[id].state = "created" => Cardinality(Holding) < Sema(Len(item_ids))
    /\ \E ok \in BOOLEAN :
          LET ii == chapter_tasks[id].ii + 1 IN
          /\ temp_files' = IF ok THEN temp_files \cup {id} ELSE temp_files
          /\ chapter_tasks' = [chapter_tasks EXCEPT
                                  ![id] = [state |-> IF ok \/ ~(ii < MaxTries) THEN "finished"
                                                     ELSE "running",
                                           ii |-> ii]]
    /\ UNCHANGED <<now, chapter_ids, item_ids, novel_pc, novel_file, removed_files, novelRest>>

\* the loop of fanqie_download over item_ids: the files that can be read
RECURSIVE Concatenate(_, _)
Concatenate(ids, files) ==
    IF ids = <<>> THEN <<>>
    ELSE (IF Head(ids) \in files THEN <<ChapterText(Head(ids))>> ELSE <<>>)
         \o Concatenate(Tail(ids), files)

\* fanqie_download after run_until_complete
DownloadFinish ==
    /\ novel_pc = "gather"
    /\ \A id \in DOMAIN chapter_tasks : chapter_tasks[id].state = "finished"
    /\ novel_file' = Concatenate(item_ids, temp_files)
    /\ removed_files' = removed_files \cup temp_files
    /\ temp_files' = {}
    /\ novel_pc' = "done"
    /\ UNCHANGED <<now, chapter_ids, item_ids, chapter_tasks, novelRest>>

\* the lists of distinct chapter ids of at most MaxChapters chapters
ChapterLists ==
    {s \in UNION {[1..n -> 1..MaxChapters] : n \in 0..MaxChapters} :
        \A i, j \in DOMAIN s : i # j => s[i] # s[j]}

NovelInit ==
    /\ now = 0
    /\ TtsStart
    /\ CtlStart
    /\ GhStart
    /\ DeployStart
    /\ UpgradeStart
    /\ IpStart
    /\ QueueStart
    /\ PadStart
    /\ ReportStart
    /\ IpreqStart
    /\ BatchStart
    /\ chapter_ids \in ChapterLists
    /\ item_ids = <<>>
    /\ novel_pc = "fanqie_download"
    /\ chapter_tasks = <<>>
    /\ temp_files = {}
    /\ novel_file = <<>>
    /\ removed_files = {}

-----------------------------------------------------------------------------
(* The IP cache file: log_ip_data and check_and_trim_file of app.py *)

MAX_LINES == 200

\* how many lines the IP cache file starts with at most, and how many
\* log_ip_data appends
MaxFileLines == 203
MaxLogged == 3

\* lines[:MAX_LINES], taking the last lines instead
FirstLines_Last(lines) ==
    SubSeq(lines, Max({1, Len(lines) - MAX_LINES + 1}), Len(lines))

\* lines[:MAX_LINES]
FirstLines(lines) == SubSeq(lines, 1, Min({Len(lines), MAX_LINES}))

\* log_ip_data: open(IP_DATA_FILE, "a") creates the file and appends a line
log_ip_data ==
    /\ ip_logged < MaxLogged
    /\ ip_logged' = ip_logged + 1
    /\ ip_file' = [exists |-> TRUE, lines |-> Append(ip_file.lines, <<"logged", ip_logged + 1>>)]
    /\ UNCHANGED <<now, trim, trim_done, ipRest>>

\* check_and_trim_file up to the end of its readlines(); it returns here
\* when the file is missing or has at most MAX_LINES lines
TrimRead ==
    /\ trim.pc = "idle"
    /\ IF ip_file.exists /\ Len(ip_file.lines) > MAX_LINES
       THEN /\ trim' = [pc |-> "write", lines |-> ip_file.lines]
            /\ UNCHANGED trim_done
       ELSE /\ trim_done' = [ran |-> TRUE, before |-> ip_file.lines, after |-> ip_file.lines]
            /\ UNCHANGED trim
    /\ UNCHANGED <<now, ip_file, ip_logged, ipRest>>

\* check_and_trim_file: open(IP_DATA_FILE, "w") and writelines
TrimWrite ==
    /\ trim.pc = "write"
    /\ ip_file' = [exists |-> TRUE, lines |-> FirstLines(trim.lines)]
    /\ trim' = [pc |-> "idle", lines |-> <<>>]
    /\ trim_done' = [ran |-> TRUE, before |-> trim.lines, after |-> ip_file'.lines]
    /\ UNCHANGED <<now, ip_logged, ipRest>>

\* the sizes ip_data.txt starts with
IpSizes == {0, 1} \cup ((MAX_LINES - 1)..MaxFileLines)

IpInit ==
    /\ now = 0
    /\ TtsStart
    /\ CtlStart
    /\ GhStart
    /\ DeployStart
    /\ UpgradeStart
    /\ NovelStart
    /\ QueueStart
    /\ PadStart
    /\ ReportStart
    /\ IpreqStart
    /\ BatchStart
    /\ \E n \in IpSizes, exists \in BOOLEAN :
          /\ exists \/ n = 0
          /\ ip_file = [exists |-> exists, lines |-> [i \in 1..n |-> <<"line", i>>]]
    /\ ip_logged = 0
    /\ trim = [pc |-> "idle", lines |-> <<>>]
    /\ trim_done = [ran |-> FALSE, before |-> <<>>, after |-> <<>>]

-----------------------------------------------------------------------------
(* The command queue of the control service: /y, /q and /p of app.py *)

\* how many commands are added at most
MaxAdded == 4

\* the password /y compares with
QueuePassword == "wumy"

\* request.args.get("command") / request.form.get("command")
Commands == {None, "", "ls", "pwd"}

\* list.remove(x), removing the last occurrence instead
ListRemove_Last(list, x) ==
    LET i == Max({j \in DOMAIN list : list[j] = x})
    IN  SubSeq(list, 1, i - 1) \o SubSeq(list, i + 1, Len(list))

\* list.remove(x): the first occurrence goes
ListRemove(list, x) ==
    LET i == Min({j \in DOMAIN list : list[j] = x})
    IN  SubSeq(list, 1, i - 1) \o SubSeq(list, i + 1, Len(list))

\* x in list
ListContains(list, x) == \E j \in DOMAIN list : list[j] = x

\* the entries of `added` that have not been removed
Live == {k \in DOMAIN added : ~added[k].removed}

\* GET /y
AddCommand(ip, command, password) ==
    LET fa == CleanAttempts(failed_attempts, ip, now) IN
    /\ Len(added) < MaxAdded
    /\ UNCHANGED <<now, correct_password, queueRest>>
    /\ IF TooManyAttempts(fa, ip)
       THEN /\ TooMany("/y", ip, password, fa)
            /\ UNCHANGED <<command_queue, added>>
       ELSE /\ failed_attempts' = fa
            /\ failure_log' = failure_log
            /\ IF password # QueuePassword
               THEN /\ response' = Answer("/y", ip, password, 403,
                                          [status |-> "error", message |-> "Invalid password"])
                    /\ UNCHANGED <<command_queue, added>>
               ELSE IF command \notin {None, ""}
               THEN /\ command_queue' = Append(command_queue, command)
                    /\ added' = Append(added, [command |-> command, removed |-> FALSE])
                    /\ response' = Answer("/y", ip, password, 200,
                                          [status |-> "command added", command |-> command])
               ELSE /\ response' = Answer("/y", ip, password, 200,
                                          [status |-> "error", message |-> "No command provided"])
                    /\ UNCHANGED <<command_queue, added>>

\* GET /q
GetCommand(ip) ==
    LET fa == CleanAttempts(failed_attempts, ip, now) IN
    /\ UNCHANGED <<now, correct_password, queueRest, command_queue, added>>
    /\ IF TooManyAttempts(fa, ip)
       THEN TooMany("/q", ip, None, fa)
       ELSE /\ failed_attempts' = fa
            /\ failure_log' = failure_log
            /\ response' = Answer("/q", ip, None, 200,
                                  [command |-> IF command_queue # <<>> THEN command_queue[1]
                                               ELSE None])

\* POST /p.  `added` marks the earliest entry of the command that is still
\* there.
RemoveCommand(ip, command) ==
    LET fa == CleanAttempts(failed_attempts, ip, now) IN
    /\ UNCHANGED <<now, correct_password, queueRest>>
    /\ IF TooManyAttempts(fa, ip)
       THEN /\ TooMany("/p", ip, None, fa)
            /\ UNCHANGED <<command_queue, added>>
       ELSE /\ failed_attempts' = fa
            /\ failure_log' = failure_log
            /\ IF ListContains(command_queue, command)
               THEN /\ command_queue' = ListRemove(command_queue, command)
                    /\ response' = Answer("/p", ip, None, 200,
                                          [status |-> "command removed", command |-> command])
               ELSE /\ response' = Answer("/p", ip, None, 200,
                                          [status |-> "error", message |-> "Command not found"])
                    /\ UNCHANGED command_queue
            /\ LET there == {k \in Live : added[k].command = command}
               IN  added' = IF there = {} THEN added
                            ELSE [added EXCEPT ![Min(there)].removed = TRUE]

QueueInit ==
    /\ now = 0
    /\ TtsStart
    /\ CtlStart
    /\ GhStart
    /\ DeployStart
    /\ UpgradeStart
    /\ NovelStart
    /\ IpStart
    /\ QueueStart
    /\ PadStart
    /\ ReportStart
    /\ IpreqStart
    /\ BatchStart

-----------------------------------------------------------------------------
(* A restart of app.py *)

\* load_processed_texts: the hashes of the stripped, non-empty pieces between
\* the delimiter lines
load_processed_texts(file) ==
    LET texts == Split(file, Separator \o <<"\n">>)
    IN  {generate_text_hash(Strip(texts[i])) : i \in {j \in DOMAIN texts : Strip(texts[j]) # <<>>}}

\* the process ends and app.py is run again: its globals are initialised anew
\* and __main__ calls load_processed_texts(); the files stay
Restart ==
    /\ processed_texts' = load_processed_texts(processed_file)
    /\ calls' = <<>>
    /\ current_processing_text' = EmptyText
    /\ failed_attempts' = <<>>
    /\ command_queue' = <<>>
    /\ added' = [k \in DOMAIN added |-> [added[k] EXCEPT !.removed = TRUE]]
    /\ trim' = [pc |-> "idle", lines |-> <<>>]
    /\ UNCHANGED <<now, attempt_result, allowed_log, processed_file, tts_result, api_calls,
                   submitted, correct_password, response, failure_log, ip_file, ip_logged,
                   trim_done, restartRest>>

\* the texts submitted around a restart
RestartTexts == {TextA, TextOther, TextShort}

-----------------------------------------------------------------------------
(* The novel downloader's column alignment: len_str and width of test.py *)

\* how long the strings given to width() are at most
MaxPadLen == 3

\* a character that is >= '\u007f': the CJK characters of this module
IsWide(ch) == ch \in {"shi", "jian", "nei", "rong"}

\* len_str, counting every character
len_str_AllChars(string) == Len(string)

\* len_str: how many characters are >= '\u007f'
len_str(string) == Cardinality({i \in DOMAIN string : IsWide(string[i])})

\* width(string, length)
width(string, length) ==
    IF length < len_str(string) THEN 0 ELSE length - len_str(string)

\* f'{string:<{w}}': left-aligned, filled with spaces up to w characters
FormatLeft(string, w) == string \o Rep(" ", Max({0, w - Len(string)}))

\* the formatted name of fanqie_singe_chapter's "finish" line
PadLine ==
    /\ ~pad_output.done
    /\ pad_output' = [done |-> TRUE,
                      text |-> FormatLeft(pad_input.string,
                                          width(pad_input.string, pad_input.length))]
    /\ UNCHANGED <<now, pad_input, padRest>>

\* another string and length are given
PadAgain ==
    /\ pad_output.done
    /\ \E n \in 0..MaxPadLen, length \in {0, 1, 2, 4, 10} :
          \E string \in [1..n -> {"a", "shi", "jian"}] :
             pad_input' = [string |-> string, length |-> length]
    /\ pad_output' = [done |-> FALSE, text |-> <<>>]
    /\ UNCHANGED <<now, padRest>>

PadInit ==
    /\ now = 0
    /\ TtsStart
    /\ CtlStart
    /\ GhStart
    /\ DeployStart
    /\ UpgradeStart
    /\ NovelStart
    /\ IpStart
    /\ QueueStart
    /\ PadStart
    /\ ReportStart
    /\ IpreqStart
    /\ BatchStart

-----------------------------------------------------------------------------
(* GET /ip and the IP cache file: get_ip, read_ip_data of app.py *)

\* how many external lookups are made at most
MaxLookups == 2

\* what get_ip_location can return for an address
Locations == {"Paris", "Lyon"}

\* f"{ip}, {location}": a line of ip_data.txt, without its newline
ip_line(ip, location) == <<ip, ",", " ", location>>

\* line.split(", ", 1) of the stripped line: <<ip, location>>, or <<>> for a
\* line that is empty or has no ", "
ParseLine(line) ==
    LET parts == Split(Strip(line), <<",", " ">>)
    IN  IF Len(parts) >= 2 THEN <<parts[1], Join(<<",", " ">>, Tail(parts))>> ELSE <<>>

\* read_ip_data: the <<ip, location>> of the valid lines, in the file's order
read_ip_data(file) ==
    IF ~file.exists THEN <<>>
    ELSE SelectSeq([i \in DOMAIN file.lines |-> ParseLine(file.lines[i])],
                   LAMBDA entry : entry # <<>>)

\* ip_data[ip] of the dict built in that order, <<>> when ip is not in it
CachedLocation(ip_data, ip) ==
    LET hits == {k \in DOMAIN ip_data : ip_data[k][1] = <<ip>>}
    IN  IF hits = {} THEN <<>> ELSE ip_data[Max(hits)][2]

\* GET /ip up to get_ip_location: the address is taken from the `ip` parameter
\* or from the connection; a cached location is answered at once
GetIpStart(addr, provided, real_time) ==
    LET fa     == CleanAttempts(failed_attempts, addr, now)
        ip     == IF provided # None THEN provided ELSE addr
        cached == CachedLocation(read_ip_data(ip_file), ip)
    IN
    /\ ip_request.pc = "idle"
    /\ real_time \/ cached = <<>> => Len(ip_lookups) < MaxLookups
    /\ UNCHANGED <<now, correct_password, ipreqRest, ip_file, ip_logged, trim, trim_done,
                   ip_lookups>>
    /\ IF TooManyAttempts(fa, addr)
       THEN /\ TooMany("/ip", addr, None, fa)
            /\ UNCHANGED ip_request
       ELSE /\ failed_attempts' = fa
            /\ failure_log' = failure_log
            /\ IF real_time \/ cached = <<>>
               THEN /\ ip_request' = [pc |-> "lookup", addr |-> addr, ip |-> ip,
                                      real_time |-> real_time]
                    /\ UNCHANGED response
               ELSE /\ response' = Answer("/ip", addr, None, 200,
                                          [ip |-> ip, location |-> cached, message |-> "cached"])
                    /\ UNCHANGED ip_request

\* GET /ip from get_ip_location on: the location is logged and answered
GetIpFinish ==
    /\ ip_request.pc = "lookup"
    /\ \E location \in Locations :
          /\ ip_file' = [exists |-> TRUE,
                         lines |-> Append(ip_file.lines, ip_line(ip_request.ip, location))]
          /\ ip_lookups' = Append(ip_lookups, [ip |-> ip_request.ip, location |-> location,
                                               real_time |-> ip_request.real_time])
          /\ response' = Answer("/ip", ip_request.addr, None, 200,
                                [ip |-> ip_request.ip, location |-> <<location>>,
                                 message |-> IF ip_request.real_time THEN "real-time"
                                             ELSE "looked up"])
    /\ ip_request' = [pc |-> "idle", addr |-> None, ip |-> None, real_time |-> FALSE]
    /\ UNCHANGED <<now, correct_password, failed_attempts, failure_log, ipreqRest, ip_logged,
                   trim, trim_done>>

\* ip_data.txt holding this many lines of other addresses
IpCacheSizes == {0, MAX_LINES - 1, MAX_LINES}

IpCacheInit ==
    /\ now = 0
    /\ TtsStart
    /\ CtlStart
    /\ GhStart
    /\ DeployStart
    /\ UpgradeStart
    /\ NovelStart
    /\ QueueStart
    /\ PadStart
    /\ ReportStart
    /\ IpreqStart
    /\ BatchStart
    /\ \E n \in IpCacheSizes :
          ip_file = [exists |-> TRUE, lines |-> [i \in 1..n |-> ip_line("192.0.2.1", "Oslo")]]
    /\ ip_logged = 0
    /\ trim = [pc |-> "idle", lines |-> <<>>]
    /\ trim_done = [ran |-> FALSE, before |-> <<>>, after |-> <<>>]

-----------------------------------------------------------------------------
(* The API batch tester: ApiBatchTester of scripts/batch_api_test.py *)

\* how many endpoints are tested at most
MaxBatchCalls == 5

\* ApiEndpoint.expected_status of every endpoint the tester defines
expected_status == 200

\* what session.get / session.post can do: answer with a status, or raise a
\* requests.exceptions.RequestException
BatchOutcomes ==
    {[kind |-> "response", status_code |-> s] : s \in {200, 429, 500}}
        \cup {[kind |-> "RequestException", status_code |-> 0]}

\* make_request: the result dict and the counters it leaves
batch_make_request(st, outcome) ==
    IF outcome.kind = "RequestException"
    THEN [result |-> [status_code |-> None, success |-> FALSE, rate_limited |-> FALSE,
                      has_error |-> TRUE, has_response_time |-> FALSE],
          stats |-> st]
    ELSE [result |-> [status_code |-> outcome.status_code,
                      success |-> outcome.status_code = expected_status,
                      rate_limited |-> outcome.status_code = 429,
                      has_error |-> outcome.status_code \notin {429, 200},
                      has_response_time |-> TRUE],
          stats |-> IF outcome.status_code = 429
                    THEN [st EXCEPT !.rate_limited_calls = @ + 1]
                    ELSE IF outcome.status_code = 200
                    THEN [st EXCEPT !.successful_calls = @ + 1]
                    ELSE [st EXCEPT !.failed_calls = @ + 1]]

\* test_single_endpoint: the request, the total counter, the log line (which
\* reads result['response_time'] of a successful result)
test_single_endpoint(outcome) ==
    LET made == batch_make_request(stats, outcome) IN
    /\ Len(batch_results) < MaxBatchCalls
    /\ stats' = [made.stats EXCEPT !.total_calls = @ + 1]
    /\ batch_results' = Append(batch_results,
            IF made.result.success /\ ~made.result.has_response_time
            THEN [raised |-> "KeyError", status_code |-> made.result.status_code]
            ELSE [raised |-> "nothing", status_code |-> made.result.status_code])
    /\ UNCHANGED <<now, batchRest>>

BatchInit ==
    /\ now = 0
    /\ TtsStart
    /\ CtlStart
    /\ GhStart
    /\ ToolsStart

-----------------------------------------------------------------------------
(* Specifications *)

RlMaxTime == 62

RlSteps == {29, 30, 31}

RlTick == \E d \in RlSteps : now + d <= RlMaxTime /\ Tick(d)

RlNext == Attempt \/ RlTick

\* the rate limiter alone
SpecRl == TtsInit /\ [][RlNext]_vars

CtlMaxTime == 60

CtlSteps == {59, 60}

CtlTick == \E d \in CtlSteps : now + d <= CtlMaxTime /\ Tick(d)

CtlRequest ==
    \E ip \in Addresses, password \in Passwords :
        \/ Doing(ip, password)
        \/ ServerStatus(ip, password)
        \/ Hello(ip, password)
        \/ \E msgtype_ok \in BOOLEAN, has_content \in BOOLEAN, sent \in BOOLEAN :
              Email(ip, password, msgtype_ok, has_content, sent)

CtlNext == CtlRequest \/ CtlTick

\* the control service, whatever SERVER_PASSWORD is and whatever tts() left behind
SpecCtl == CtlInit /\ [][CtlNext]_vars

GhNext == MainGetRepos \/ MainReposNone \/ MainDefaultBranch \/ MainGather

\* one run of main() against an account of any of the sizes
SpecGh == GhInit /\ [][GhNext]_vars

RunTask ==
    \E repo \in 1..account :
        \/ TriggerList(repo)
        \/ TriggerDispatch(repo)
        \/ DeleteList(repo)
        \/ DeleteRuns(repo)

RunNext ==
    \/ MainGetRepos \/ MainReposNone \/ MainDefaultBranch \/ MainGather
    \/ MainTriggerRaises \/ MainSleep \/ MainWake \/ MainDeleteRaises \/ MainDone
    \/ RunTask

\* one whole run of main() and of the tasks it creates
SpecRun == RunInit /\ [][RunNext]_vars

DeployNext == DeployMain \/ DeployHost \/ DeployDone

\* one run of the deploy tool, whatever the environment holds
SpecDeploy == DeployInit /\ [][DeployNext]_vars

\* the deploy tool on hosts that have containers
SpecRecreate == RecreateInit /\ [][DeployNext]_vars

UpgradeNext == UpgradeMain \/ Fetch \/ UpgradeGather \/ UpgradeOne \/ UpgradeDone

SpecUpgrade == UpgradeInit /\ [][UpgradeNext]_vars

NovelNext ==
    \/ DownloadStart
    \/ \E id \in DOMAIN chapter_tasks : ChapterTry(id)
    \/ DownloadFinish

SpecNovel == NovelInit /\ [][NovelNext]_vars

IpNext == log_ip_data \/ TrimRead \/ TrimWrite

SpecIp == IpInit /\ [][IpNext]_vars

QueueNext ==
    \E ip \in Addresses, command \in Commands :
        \/ \E password \in {None, Secret, QueuePassword} : AddCommand(ip, command, password)
        \/ GetCommand(ip)
        \/ RemoveCommand(ip, command)

SpecQueue == QueueInit /\ [][QueueNext]_vars

\* how many texts reach the speech API over the restarts
MaxApiCalls == 3

RestartCall == \E text \in RestartTexts : Len(api_calls) < MaxApiCalls /\ Tts(text)

RestartNext == RestartCall \/ Restart

\* the synthesis pipeline over restarts of its process
SpecRestart == TtsInit /\ [][RestartNext]_vars

PadNext == PadLine \/ PadAgain

SpecPad == PadInit /\ [][PadNext]_vars

IpCacheNext ==
    \/ \E addr \in Addresses, provided \in Addresses \cup {None}, real_time \in BOOLEAN :
          GetIpStart(addr, provided, real_time)
    \/ GetIpFinish
    \/ TrimRead
    \/ TrimWrite

\* GET /ip requests and the periodic trim of ip_data.txt
SpecIpCache == IpCacheInit /\ [][IpCacheNext]_vars

BatchNext == \E outcome \in BatchOutcomes : test_single_endpoint(outcome)

\* the batch tester called on endpoints, whatever the API answers
SpecBatch == BatchInit /\ [][BatchNext]_vars

TtsCall == \E text \in Texts : Tts(text)

TtsNext == TtsCall

\* the synthesis pipeline in one process, within one window of the rate limiter
SpecTts == TtsInit /\ [][TtsNext]_vars

-----------------------------------------------------------------------------
(* Claims *)

Count(seq, x) == Cardinality({i \in DOMAIN seq : seq[i] = x})

\* a step in which tts(text) was called and ended otherwise than the call before it
TtsCalled(text) == tts_result' # tts_result /\ tts_result'.text = text

\* C1: a text that tts() has already been called with is rejected with the
\* duplicate error before the rate limiter, the store and the speech API are
\* touched, and no text is ever sent to the speech API more than once.
C1_DuplicateRejected ==
    /\ [](\A text \in Texts : Count(api_calls, text) <= 1)
    /\ [][\A text \in Texts \ {EmptyText} :
            TtsCalled(text) /\ text \in submitted =>
                /\ tts_result' = Raise(text, DuplicateError)
                /\ UNCHANGED <<calls, allowed_log, processed_file, api_calls>>]_vars

\* the first call of TextA was synthesised and the second was rejected
C1_Witness ==
    /\ Count(api_calls, TextA) = 1
    /\ tts_result = Raise(TextA, DuplicateError)

\* a step in which attempt() was called
AttemptCalled == <<calls, attempt_result, allowed_log>>' # <<calls, attempt_result, allowed_log>>

\* C2: with max_calls=5 and period=30 an attempt returns True exactly when fewer
\* than 5 earlier allowed attempts lie in the 30 seconds before it; an allowed
\* attempt is recorded and a denied one is not; so no 30-second window holds
\* more than 5 allowed attempts.
C2_RateLimit ==
    /\ [](\A s \in 0..now :
            Cardinality({i \in DOMAIN allowed_log :
                           s <= allowed_log[i] /\ allowed_log[i] < s + 30}) <= 5)
    /\ [][AttemptCalled =>
            LET prior == Cardinality({i \in DOMAIN allowed_log : allowed_log[i] > now - 30})
            IN  /\ attempt_result' = <<prior < 5>>
                /\ Count(calls', now) = Count(calls, now) + (IF prior < 5 THEN 1 ELSE 0)]_vars

\* five attempts allowed, five more allowed once the window had passed, and
\* the next attempt denied
C2_Witness ==
    /\ attempt_result = <<FALSE>>
    /\ Len(allowed_log) = 10
    /\ allowed_log[6] >= allowed_log[5] + 30

\* C3: a call of tts() with the empty string returns the silence file, sends
\* nothing to the speech API and leaves the duplicate-text set unchanged.
C3_EmptyTextLeavesNoTrace ==
    [][TtsCalled(EmptyText) =>
          /\ tts_result' = Return(EmptyText, SilenceFile)
          /\ UNCHANGED <<api_calls, processed_texts>>]_vars

\* the store holds a block whose content is text
Recorded(file, text) == Contains(file, ContentMarker \o text \o <<"\n">> \o Separator)

\* near differs from text only in its last character and their ratio is above 0.9
NearDuplicate(text, near) ==
    /\ near # text
    /\ Len(near) = Len(text)
    /\ Len(text) > 1
    /\ SubSeq(near, 1, Len(text) - 1) = SubSeq(text, 1, Len(text) - 1)
    /\ RatioAbove90(text, near)

\* C4: once a text is recorded in the store, check_similarity is true of every
\* text that differs from it only in trailing characters, whatever else the
\* store holds, and false of a materially different text of the same length.
C4_NearDuplicateRejected ==
    \A text \in Texts : Recorded(processed_file, text) =>
        /\ \A near \in Texts : NearDuplicate(text, near) =>
                                  check_similarity(processed_file, near)
        /\ text = TextA => ~check_similarity(processed_file, TextOther)

\* C5: with SERVER_PASSWORD unset no request, whatever its password parameter,
\* passes a password check: /doing does not return the in-progress text,
\* /server_status does not return the host's status and /hello does not return
\* the fixed greeting.
C5_UnsetPasswordFailsAll ==
    correct_password = None =>
        /\ ~(response.route = "/doing" /\ response.status = 200)
        /\ ~(/\ response.route = "/server_status"
             /\ response.status = 200
             /\ response.body.boot_time = HostStatus.boot_time)
        /\ ~(response.route = "/hello" /\ response.body = [return_data |-> Greeting])

B64Index(c) == CHOOSE i \in 0..63 : Base64Alphabet[i + 1] = c

\* the bytes that four Base64 characters stand for
B64GroupBytes(g) ==
    LET pad == Cardinality({i \in 1..4 : g[i] = "="})
        I(i) == IF g[i] = "=" THEN 0 ELSE B64Index(g[i])
        v   == I(1) * 262144 + I(2) * 4096 + I(3) * 64 + I(4)
        all == <<v \div 65536, (v \div 256) % 256, v % 256>>
    IN  SubSeq(all, 1, 3 - pad)

RECURSIVE b64decode(_)
b64decode(chars) ==
    IF chars = <<>> THEN <<>>
    ELSE B64GroupBytes(SubSeq(chars, 1, 4)) \o b64decode(SubSeq(chars, 5, Len(chars)))

\* C6: with SERVER_PASSWORD configured, /doing answers a request whose password
\* differs from it or is missing with 401 and the same explicit error body
\* whatever current_processing_text is, and answers the matching password with
\* 200 and the Base64 encoding of the JSON object {"text": current_processing_text}.
C6_DoingPassword ==
    correct_password # None /\ response.route = "/doing" =>
        IF response.password = correct_password
        THEN /\ response.status = 200
             /\ Decode(b64decode(response.body.data)) = json_dumps(current_processing_text)
        ELSE /\ response.status = 401
             /\ response.body = [error |-> "Invalid password"]

\* C7: every /server_status answer to a wrong password has cpu_usage_percent in
\* 5..95, memory total between 2 GiB and 16 GiB, and memory used at most that
\* total.
C7_DecoyStatusRanges ==
    /\ response.route = "/server_status"
    /\ response.password # correct_password
    /\ response.status = 200
    => /\ response.body.cpu_usage_percent \in 5..95
       /\ response.body.memory_usage.total \in (2 * 1024)..(16 * 1024)
       /\ response.body.memory_usage.used <= response.body.memory_usage.total

\* C8: /server_status and /hello answer a wrong password with status 200, as
\* they answer the correct one, and the /hello body then carries a string of
\* 50 characters.
C8_DecoyStatusCode ==
    response.route \in {"/server_status", "/hello"} /\ response.password # correct_password =>
        /\ response.status = 200
        /\ response.route = "/hello" =>
              /\ "return_data" \in DOMAIN response.body
              /\ Len(response.body.return_data) = 50

\* a step in which /email answered a request from ip
EmailCalled(ip) ==
    response' # response /\ response'.route = "/email" /\ response'.ip = ip

\* /email recorded a failure of ip at some t with t <= now < t + 60
LockedOut(ip) ==
    \E f \in failure_log : f[1] = ip /\ f[2] <= now /\ now < f[2] + 60

\* C9: a wrong password on /email from ip at time t is answered 403 and recorded
\* as a failure; every /email request from ip at a time in [t, t+60) is answered
\* 429, the correct password included, and records nothing; a request at
\* t+60 or later is processed normally.
C9_EmailLockout ==
    [][\A ip \in Addresses : EmailCalled(ip) =>
          IF LockedOut(ip)
          THEN /\ response'.status = 429
               /\ failure_log' = failure_log
          ELSE /\ response'.status \in {200, 400, 403, 500}
               /\ response'.status = 403 <=> response'.password # PASSWORD
               /\ failure_log' = IF response'.status = 403
                                 THEN failure_log \cup {<<ip, now>>}
                                 ELSE failure_log]_vars

\* the correct password answered 429, 59 seconds after the recorded failure
C9_Witness ==
    /\ response.route = "/email"
    /\ response.password = PASSWORD
    /\ response.status = 429
    /\ <<response.ip, response.at - 59>> \in failure_log

\* the calls that list the account's repositories
ListingCalls == SelectSeq(requests, LAMBDA c : c.url[1] \in {"user", "users"})

\* C10: main() collects every repository of the account, by asking for pages
\* of 100 until a page comes back empty, and processes each of them: of 150
\* repositories all 150 are collected, with the third page the last one asked for.
C10_CollectsAllRepositories ==
    main_pc # "get_repos" /\ ~repos.is_none =>
        /\ repos.value = AllRepos
        /\ Len(ListingCalls) = ((account + 99) \div 100) + 1
        /\ main_pc = "gather" => [i \in 1..Len(trigger_tasks) |-> trigger_tasks[i][1]] = AllRepos

\* C11: when make_request returns None for a repository's detail, workflow list
\* or run list, no exception escapes: neither main() nor any of its tasks ends
\* in the AttributeError of data.get on None.
C11_AbsentResultTolerated ==
    /\ main_pc # "AttributeError"
    /\ \A key \in DOMAIN tasks : tasks[key] # "AttributeError"

Logged(line) == \E i \in 1..Len(workflow_log) : workflow_log[i] = line

\* C12: a dispatch or a deletion answered 204 is logged as a success of that
\* workflow or run, and one answered otherwise as a failure.
C12_NoContentIsSuccess ==
    \A a \in answered :
        IF a.method = "POST"
        THEN Logged(Line(IF a.status = 204 THEN "triggered" ELSE "trigger failed", a.item))
        ELSE Logged(Line(IF a.status = 204 THEN "deleted" ELSE "delete failed", a.item))

\* the number of entries of a comma-separated list
Entries(value) == Count(value, ",") + 1

\* the numbers of entries of the five lists of the environment
ListSizes ==
    {Entries(getenv(deploy_env.SERVER_ADDRESS, <<>>)),
     Entries(getenv(deploy_env.USERNAME, <<>>)),
     Entries(getenv(deploy_env.PORT, <<"2", "2">>)),
     Entries(getenv(deploy_env.PRIVATE_KEY, <<>>)),
     Entries(getenv(deploy_env.CONTAINER_NAMES, <<>>))}

\* C13: when the five lists do not all have the same number of entries, main()
\* logs the configuration error and returns: no SSH connection is opened and
\* no remote command is run.
C13_MismatchedListsNoSsh ==
    Cardinality(ListSizes) > 1 /\ deploy_pc # "main" =>
        /\ deploy_pc = "returned"
        /\ deploy_log = <<DeployLine("lists differ in length", <<>>)>>
        /\ ssh_log = <<>>
        /\ remote_commands = <<>>

\* main() returned where only the last of the five lists is shorter
C13_Witness ==
    /\ deploy_pc = "returned"
    /\ Entries(getenv(deploy_env.SERVER_ADDRESS, <<>>)) = 3
    /\ Entries(getenv(deploy_env.USERNAME, <<>>)) = 3
    /\ Entries(getenv(deploy_env.PORT, <<"2", "2">>)) = 3
    /\ Entries(getenv(deploy_env.PRIVATE_KEY, <<>>)) = 3
    /\ Entries(getenv(deploy_env.CONTAINER_NAMES, <<>>)) = 2

\* C14: a failed SSH connection to one host aborts that host only: when main()
\* has ended, every host with a complete configuration has been connected to.
C14_LaterHostsStillProcessed ==
    deploy_pc \in {"done", "exception"} =>
        \A i \in 0..(Len(server_addresses(deploy_env)) - 1) :
            Complete(HostConfig(deploy_env, i), image_url(deploy_env)) =>
                \E j \in 1..Len(ssh_log) :
                    ssh_log[j][1] = HostConfig(deploy_env, i).server_address

\* the packages whose lookup never succeeded: every try failed, or the
\* index answered with an error status
LookupFailed ==
    {i \in DOMAIN fetches : fetches[i].kind \in {"None", "HTTPStatusError"}}

\* C15: once the upgrader has stopped it has ended normally, and for every
\* package whose lookup never succeeded no upgrade command was issued and
\* the skip message was printed.
C15_FailedLookupSkipped ==
    upgrade_pc \notin {"not started", "gather", "upgrade_packages"} =>
        /\ upgrade_pc = "done"
        /\ \A i \in LookupFailed :
              /\ \A c \in DOMAIN upgrade_commands :
                    upgrade_commands[c][1] # installed_packages[i].name
              /\ Count(upgrade_output, <<"skipped", installed_packages[i].name>>) = 1

\* the chapters whose download succeeded, in the order of the metadata list
DownloadedInOrder == Concatenate(chapter_ids, removed_files)

\* C16: when the download has finished, the book's file holds the downloaded
\* chapters in the order of the metadata's chapter-id list, and every
\* temporary file that was concatenated is removed.
C16_OriginalChapterOrder ==
    novel_pc = "done" =>
        /\ novel_file = DownloadedInOrder
        /\ temp_files = {}

\* C17: a check_and_trim_file that read n lines leaves the file with exactly
\* the first min(n, 200) of them, in their order.
C17_TrimKeepsFirstLines ==
    trim_done.ran =>
        LET n == Len(trim_done.before)
            kept == IF n > 200 THEN 200 ELSE n
        IN  /\ Len(trim_done.after) = kept
            /\ \A i \in 1..kept : trim_done.after[i] = trim_done.before[i]

\* a file of more than 200 lines has been trimmed
C17_Witness ==
    /\ trim_done.ran
    /\ Len(trim_done.before) > 200
    /\ Len(trim_done.after) = 200

\* the commands added and not removed since, earliest first
RECURSIVE LiveCommands(_)
LiveCommands(k) ==
    IF k = 0 THEN <<>>
    ELSE LiveCommands(k - 1) \o (IF added[k].removed THEN <<>> ELSE <<added[k].command>>)

C19_RememberedOverRestart ==
    [][\A text \in Texts :
          TtsCalled(text) /\ Count(api_calls, text) > 0 =>
              tts_result' = Raise(text, DuplicateError)]_vars

\* C20: the duplicate-text set holds the hash of no text other than those sent
\* to the speech API, so a text that the rate limiter or the similarity check
\* turned away is not a duplicate when it comes again.
C20_OnlyAcceptedRemembered ==
    \A text \in Texts \ {EmptyText} :
        IsDuplicate(processed_texts, text) => Count(api_calls, text) > 0

\* the display cells a string takes: two for a wide character, one otherwise
RECURSIVE Cells(_)
Cells(string) ==
    IF string = <<>> THEN 0
    ELSE (IF IsWide(Head(string)) THEN 2 ELSE 1) + Cells(Tail(string))

\* the spaces at the end of the formatted string
TrailingSpaces == Len(pad_output.text) - Len(pad_input.string)

TwoWide == pad_input.string = <<"shi", "jian">> /\ pad_input.length = 10

C22_ProcessingTextCleared ==
    tts_result.kind # "none" /\ tts_result.value \notin {DuplicateError, RateLimitError} =>
        current_processing_text = EmptyText

\* C23: when the speech API call of tts() has failed, error.txt holds an entry
\* for the failure.
C23_ApiFailureInErrorFile ==
    tts_result.kind = "raise" /\ tts_result.value = ApiError =>
        \E i \in DOMAIN error_file : error_file[i][2] = ApiError

\* x is name with `_old` appended once or more
IsRenamed(name, x) ==
    /\ Len(x) > Len(name)
    /\ SubSeq(x, 1, Len(name)) = name
    /\ \A k \in (Len(name) + 1)..Len(x) : x[k] = "_old"

\* where a command of this kind, on this host, naming this container, was run
Issued(kind, host, name) ==
    {k \in DOMAIN remote_commands : remote_commands[k] = <<host, kind, name>>}

\* the hosts and containers for which docker run was issued
Recreated ==
    {<<remote_commands[k][1], remote_commands[k][3]>> :
        k \in {r \in DOMAIN remote_commands : remote_commands[r][2] = "docker run"}}

\* C24: docker run is issued at most once for a container, and before it, in
\* this order, come the backup's inspection, the image pull, the rename to a
\* free `<name>_old...` name, the inspection under that name and the removal
\* of the renamed container; afterwards the renamed container is gone.
C24_RecreateOrder ==
    \A hn \in Recreated :
        LET host == hn[1]
            name == hn[2]
            backup == Issued("docker inspect", host, name)
            rename == Issued("docker rename", host, name)
            run    == Issued("docker run", host, name)
        IN  /\ Cardinality(run) = 1
            /\ Cardinality(backup) = 1
            /\ Cardinality(rename) = 1
            /\ \E p \in Issued("docker pull", host, <<>>) : Max(backup) < p /\ p < Max(rename)
            /\ \E new \in {remote_commands[k][3] : k \in DOMAIN remote_commands} :
                  LET inspect == Issued("docker inspect", host, new)
                      removal == Issued("docker rm", host, new) \cup Issued("docker rm -f", host, new)
                  IN  /\ IsRenamed(name, new)
                      /\ Cardinality(inspect) = 1
                      /\ removal # {}
                      /\ Max(rename) < Max(inspect)
                      /\ Max(inspect) < Min(removal)
                      /\ Max(removal) < Max(run)
                      /\ <<host, new>> \notin remote_containers

\* C24 where the image reference has a tag
C24_RecreateOrderTagged ==
    Contains(image_url(deploy_env), <<":">>) => C24_RecreateOrder

\* C25: when the image reference is not empty and has no ':', no container is
\* renamed or removed and no docker run is issued.
C25_RejectedImageChangesNothing ==
    image_url(deploy_env) # <<>> /\ ~Contains(image_url(deploy_env), <<":">>) =>
        \A k \in DOMAIN remote_commands :
            remote_commands[k][2] \notin {"docker rename", "docker rm", "docker rm -f", "docker run"}

\* the lookups made for an address
LookupsOf(ip) == {k \in DOMAIN ip_lookups : ip_lookups[k].ip = ip}

\* C27: an address that has been looked up and logged is not looked up again
\* unless real-time is asked, and a cached answer gives the location of the
\* latest lookup of the address.
C27_CachedAfterLookup ==
    /\ \A k \in DOMAIN ip_lookups :
          ~ip_lookups[k].real_time => \A j \in 1..(k - 1) : ip_lookups[j].ip # ip_lookups[k].ip
    /\ response.route = "/ip" /\ response.status = 200 /\ response.body.message = "cached" =>
          response.body.location = <<ip_lookups[Max(LookupsOf(response.body.ip))].location>>

\* C26: every outbound GitHub API call is made by make_request, inside its
\* `async with semaphore`, which is what keeps the calls in flight at or below
\* CONCURRENT_REQUESTS_LIMIT.
C26_CallsHoldSemaphore == \A k \in DOMAIN requests : requests[k].helper

\* C28: the lockout that follows a wrong password on /email guards /email
\* only: no other route answers an address with the lockout's 429.
C28_LockoutOnlyOnEmail ==
    response.route \notin {"none", "/email"} => response.status # 429

\* the ids of the runs whose deletion is requested
FailedRunIds ==
    UNION {{FailedRuns(repo)[i].id : i \in 1..Len(FailedRuns(repo))} : repo \in 1..account}

\* C29: the i-th deletion response is reported against the i-th run whose
\* conclusion is "failure": every deletion result line names a failed run, and
\* the lines of a repository name its failed runs in order.
C29_DeletionReportedForFailedRun ==
    /\ \A k \in DOMAIN workflow_log :
          workflow_log[k].event \in {"deleted", "delete failed"} =>
              workflow_log[k].item \in FailedRunIds
    /\ \A repo \in 1..account :
          <<"delete", repo>> \in DOMAIN tasks /\ tasks[<<"delete", repo>>] = "done" =>
              LET reported == SelectSeq(workflow_log,
                                  LAMBDA l : /\ l.event \in {"deleted", "delete failed"}
                                             /\ l.item \in {RunsOf(repo)[i].id : i \in 1..Len(RunsOf(repo))})
              IN  [i \in 1..Len(reported) |-> reported[i].item]
                    = [i \in 1..Len(FailedRuns(repo)) |-> FailedRuns(repo)[i].id]

\* C30: after any sequence of test_single_endpoint calls, total_calls is the
\* sum of successful_calls, failed_calls and rate_limited_calls, and no call
\* raised.
C30_CountersAddUp ==
    /\ stats.total_calls = stats.successful_calls + stats.failed_calls + stats.rate_limited_calls
    /\ \A k \in DOMAIN batch_results : batch_results[k].raised = "nothing"

=============================================================================
